---- MODULE Spec2Model ----
(***************************************************************************)
(* Model of the catalog enrichment pipeline (descriptionwriter.py,          *)
(* pipeline_runner.py, image_fetcher.py, imageuploader.py).                 *)
(*                                                                          *)
(* Text is modelled as sequences of one-character strings, so that the     *)
(* line-oriented files (processed_items.txt, image_batch_names.txt) are    *)
(* written and parsed character by character as the code does.             *)
(***************************************************************************)
EXTENDS Integers, Sequences, FiniteSets, TLC

VARIABLES
    pc,             \* position of the running process ("idle": none running)
    catalogFile,    \* the catalog JSON file: the sequence of products
    processedFile,  \* processed_items.txt: its characters
    batchFile,      \* image_batch_names.txt: its characters
    products,       \* all_products, the catalog loaded in memory
    batch_size,     \* effective_batch_size of the run
    batch,          \* next_batch, as indices into all_products
    results,        \* processed_results returned by process_batch
    enhanced_names, \* enhanced_names returned by the apply step
    updated,        \* count_updated returned by the apply step
    apiResult,      \* how the text-generation call of the run ended
    linksFile,      \* s3_upload_links.txt: its data lines, (filename stem, url)
    names_in,       \* names handed to write_batch_names
    names_out,      \* names returned by read_batch_names
    match_name,     \* product_name handed to _match_url_for_name
    match_url,      \* what _match_url_for_name returned
    replace_mode,   \* "batch": the pass for a name set, "all": the global pass
    replace_report, \* the skip counters of a replacement pass
    comp,           \* an execution of resize_image_for_size: its local state
    document,       \* a catalog file of any shape, loaded and saved
    call,           \* a process making the text-generation call on its own
    fetch,          \* a process running image_fetcher.main_cli
    ledger,         \* a link file written by the uploader and parsed back
    everNames,      \* history: names the persisted catalog has ever held
    run0,           \* history: the durable files when the run started
    omitted,        \* history: batch products the last response omitted
    entries,        \* number of result entries the service has returned so far
    faults          \* number of failed writes and terminations so far

vars == <<pc, catalogFile, processedFile, batchFile, linksFile, products,
          batch_size, batch, results, enhanced_names,
          updated, apiResult, names_in, names_out, everNames, run0, omitted,
          entries, faults, match_name, match_url, replace_mode,
          replace_report, comp, document, call, fetch, ledger>>

----------------------------------------------------------------------------
(* Bounds of the model. *)

MaxProducts == 2
MaxBatchSize == 2
MaxEntries == 2
MaxFaults == 1
MaxKeys == 2
MaxChars == 3
MaxNames == 2
MaxLines == 2
MaxResults == 2
MaxLinks == 2
MaxCatalog == 3
MaxPairs == 3
MaxPoolKeys == 6

(* Program constants. *)
MAX_RETRIES == 5

----------------------------------------------------------------------------
(* Text helpers. *)

NL == "\n"
Whitespace == {" ", NL}
Alphabet == {"a", " ", NL}

Min(S) == CHOOSE x \in S : \A y \in S : x <= y
Max(S) == CHOOSE x \in S : \A y \in S : x >= y
Range(s) == {s[i] : i \in 1..Len(s)}

SeqsUpTo(S, n) == UNION {[1..k -> S] : k \in 0..n}

RECURSIVE Flatten(_)
Flatten(ss) == IF ss = <<>> THEN <<>> ELSE Head(ss) \o Flatten(Tail(ss))

(* str.strip() *)
Strip(s) ==
    LET keep == {i \in 1..Len(s) : s[i] \notin Whitespace}
    IN  IF keep = {} THEN <<>> ELSE SubSeq(s, Min(keep), Max(keep))

(* iteration over a text file: the lines, each with its line break *)
RECURSIVE FileLines(_)
FileLines(text) ==
    IF text = <<>> THEN <<>>
    ELSE LET nl == {i \in 1..Len(text) : text[i] = NL}
         IN  IF nl = {} THEN <<text>>
             ELSE <<SubSeq(text, 1, Min(nl))>>
                  \o FileLines(SubSeq(text, Min(nl) + 1, Len(text)))

(* [line.strip() for line in f if line.strip()] *)
StrippedLines(text) ==
    LET ls == FileLines(text)
        st == [i \in 1..Len(ls) |-> Strip(ls[i])]
    IN  SelectSeq(st, LAMBDA l : l # <<>>)

(* for n in names: f.write(n + "\n") *)
NameLines(names) == Flatten([i \in 1..Len(names) |-> names[i] \o <<NL>>])

----------------------------------------------------------------------------
(* Progress tracker files. *)

read_processed_names(file) == Range(StrippedLines(file))

(* variant: the tracker opened in mode 'w' instead of 'a' *)
overwrite_processed_names(file, names) == NameLines(names)

append_processed_names(file, names) == file \o NameLines(names)

(* variant: the batch file opened in mode 'a' instead of 'w' *)
write_batch_names_append(file, names) == file \o NameLines(names)

write_batch_names(file, names) == NameLines(names)

read_batch_names(file) == StrippedLines(file)

----------------------------------------------------------------------------
(* Batch selection. *)

RECURSIVE SelectLoop(_, _, _, _, _)
SelectLoop(all_products, size, processed, i, next_batch) ==
    IF i > Len(all_products) THEN next_batch
    ELSE LET name == Strip(all_products[i].name)
         IN  IF name = <<>> THEN
                 SelectLoop(all_products, size, processed, i + 1, next_batch)
             ELSE IF name \in processed THEN
                 SelectLoop(all_products, size, processed, i + 1, next_batch)
             ELSE LET nb == Append(next_batch, i)
                  IN  IF Len(nb) >= size THEN nb
                      ELSE SelectLoop(all_products, size, processed, i + 1, nb)

select_next_batch(all_products, size, file) ==
    SelectLoop(all_products, size, read_processed_names(file), 1, <<>>)

----------------------------------------------------------------------------
(* Applying the enrichment results. *)

(* name_to_index: the first index of every non-empty name *)
NameToIndex(all_products) ==
    [n \in {all_products[i].name : i \in 1..Len(all_products)} \ {<<>>} |->
        Min({i \in 1..Len(all_products) : all_products[i].name = n})]

(* variant: the canonical name without the fallback to originalName *)
CanonicalEnhancedOnly(item) == item.enhancedName

Canonical(item) ==
    IF item.enhancedName # <<>> THEN item.enhancedName ELSE item.originalName

(* variant: the product is built anew from the response item *)
ApplyItemRebuilt(ps, idx, item) ==
    [ps EXCEPT ![idx] =
        [name |-> IF item.enhancedName # <<>>
                  THEN item.enhancedName ELSE @.name,
         description |-> item.enhancedDescription,
         image |-> @.image,
         extra |-> "x"]]

ApplyItem(ps, idx, item) ==
    [ps EXCEPT ![idx] =
        [@ EXCEPT !.name = IF item.enhancedName # <<>>
                           THEN item.enhancedName ELSE @,
                  !.description = IF item.enhancedDescription # <<>>
                                  THEN item.enhancedDescription ELSE @]]

RECURSIVE ApplyLoop(_, _, _, _)
ApplyLoop(name_to_index, processed_results, k, acc) ==
    IF k > Len(processed_results) THEN acc
    ELSE LET item == processed_results[k]
             original == item.originalName
         IN  IF original = <<>> \/ original \notin DOMAIN name_to_index THEN
                 ApplyLoop(name_to_index, processed_results, k + 1, acc)
             ELSE ApplyLoop(name_to_index, processed_results, k + 1,
                    [products |-> ApplyItem(acc.products,
                                            name_to_index[original], item),
                     updated |-> acc.updated + 1,
                     enhanced_names |->
                         Append(acc.enhanced_names, Canonical(item))])

(* variant: the k-th result applied to the k-th product, no lookup by name *)
apply_by_position(all_products, processed_results) ==
    LET n == Min({Len(all_products), Len(processed_results)})
    IN  [products |->
            [i \in 1..Len(all_products) |->
                IF i <= n
                THEN ApplyItem(all_products, i, processed_results[i])[i]
                ELSE all_products[i]],
         updated |-> n,
         enhanced_names |-> [k \in 1..n |-> Canonical(processed_results[k])]]

apply_enhancements_to_products(all_products, processed_results) ==
    ApplyLoop(NameToIndex(all_products), processed_results, 1,
              [products |-> all_products, updated |-> 0,
               enhanced_names |-> <<>>])

----------------------------------------------------------------------------
(* Name matcher and image replacement. *)

DUMMY_IMAGE_URL == <<>>

AlnumChars == {"a", "b", "e", "A", "B", "E", "1", "2", "3"}
Lower(c) ==
    IF c = "A" THEN "a" ELSE IF c = "B" THEN "b" ELSE IF c = "E" THEN "e" ELSE c
LowerStr(s) == [i \in 1..Len(s) |-> Lower(s[i])]

(* str.rstrip() *)
RStrip(s) ==
    LET keep == {i \in 1..Len(s) : s[i] \notin Whitespace}
    IN  IF keep = {} THEN <<>> ELSE SubSeq(s, 1, Max(keep))

sanitize_name_for_filename(name) ==
    LET clean == RStrip(SelectSeq(name,
                     LAMBDA c : c \in AlnumChars \/ c \in {" ", "-", "_"}))
    IN  [i \in 1..Len(clean) |->
            Lower(IF clean[i] = " " THEN "_" ELSE clean[i])]

StartsWith(s, prefix) ==
    Len(prefix) <= Len(s) /\ SubSeq(s, 1, Len(prefix)) = prefix

(* a dict as the sequence of its (key, value) items in insertion order *)
DictKeys(d) == {d[i].key : i \in 1..Len(d)}
DictGet(d, k) == d[CHOOSE i \in 1..Len(d) : d[i].key = k].value
DictSet(d, k, v) ==
    IF k \in DictKeys(d)
    THEN [i \in 1..Len(d) |-> IF d[i].key = k THEN [key |-> k, value |-> v]
                                              ELSE d[i]]
    ELSE Append(d, [key |-> k, value |-> v])

(* base_to_url[os.path.splitext(filename)[0].lower()] = url *)
RECURSIVE BaseToUrl(_, _)
BaseToUrl(links, acc) ==
    IF links = <<>> THEN acc
    ELSE BaseToUrl(Tail(links),
                   DictSet(acc, LowerStr(Head(links).stem), Head(links).url))

NoUrl == <<>>

(* variant: the prefix rules tried before the exact and numbered keys *)
match_url_prefix_first(base_to_url, product_name) ==
    LET base == sanitize_name_for_filename(product_name)
        numbered == <<base, base \o <<"_", "1">>, base \o <<"_", "2">>,
                      base \o <<"_", "3">>>>
        hit1 == {k \in 1..4 : numbered[k] \in DictKeys(base_to_url)}
        hit2 == {i \in 1..Len(base_to_url) :
                    StartsWith(base_to_url[i].key, base)}
        hit3 == {i \in 1..Len(base_to_url) :
                    StartsWith(base, base_to_url[i].key)}
    IN  IF hit2 # {} THEN base_to_url[Min(hit2)].value
        ELSE IF hit3 # {} THEN base_to_url[Min(hit3)].value
        ELSE IF hit1 # {} THEN DictGet(base_to_url, numbered[Min(hit1)])
        ELSE NoUrl

(* variant: the first URL of the ledger when no rule has a hit *)
match_url_with_fallback(base_to_url, product_name) ==
    LET base == sanitize_name_for_filename(product_name)
        numbered == <<base, base \o <<"_", "1">>, base \o <<"_", "2">>,
                      base \o <<"_", "3">>>>
        hit1 == {k \in 1..4 : numbered[k] \in DictKeys(base_to_url)}
        hit2 == {i \in 1..Len(base_to_url) :
                    StartsWith(base_to_url[i].key, base)}
        hit3 == {i \in 1..Len(base_to_url) :
                    StartsWith(base, base_to_url[i].key)}
    IN  IF hit1 # {} THEN DictGet(base_to_url, numbered[Min(hit1)])
        ELSE IF hit2 # {} THEN base_to_url[Min(hit2)].value
        ELSE IF hit3 # {} THEN base_to_url[Min(hit3)].value
        ELSE IF base_to_url # <<>> THEN base_to_url[1].value
        ELSE NoUrl

match_url_for_name(base_to_url, product_name) ==
    LET base == sanitize_name_for_filename(product_name)
        numbered == <<base, base \o <<"_", "1">>, base \o <<"_", "2">>,
                      base \o <<"_", "3">>>>
        hit1 == {k \in 1..4 : numbered[k] \in DictKeys(base_to_url)}
        hit2 == {i \in 1..Len(base_to_url) :
                    StartsWith(base_to_url[i].key, base)}
        hit3 == {i \in 1..Len(base_to_url) :
                    StartsWith(base, base_to_url[i].key)}
    IN  IF hit1 # {} THEN DictGet(base_to_url, numbered[Min(hit1)])
        ELSE IF hit2 # {} THEN base_to_url[Min(hit2)].value
        ELSE IF hit3 # {} THEN base_to_url[Min(hit3)].value
        ELSE NoUrl

(* variant: the image is replaced whatever it holds *)
ReplaceBranchAnyImage(p, base_to_url, restricted, batch_names_lower) ==
    LET name == Strip(p.name)
    IN  IF name = <<>> THEN "no_name"
        ELSE IF restricted /\ LowerStr(name) \notin batch_names_lower
             THEN "not_in_batch"
        ELSE IF match_url_for_name(base_to_url, name) # NoUrl THEN "updated"
        ELSE "no_link"

(* the loop body of the replacement passes, the branch it takes for the
   product p; restricted = FALSE is the global pass, which has no name set *)
ReplaceBranch(p, base_to_url, restricted, batch_names_lower) ==
    LET name == Strip(p.name)
    IN  IF name = <<>> THEN "no_name"
        ELSE IF restricted /\ LowerStr(name) \notin batch_names_lower
             THEN "not_in_batch"
        ELSE IF Strip(p.image) # DUMMY_IMAGE_URL THEN "not_dummy"
        ELSE IF match_url_for_name(base_to_url, name) # NoUrl THEN "updated"
        ELSE "no_link"

ReplaceOne(p, base_to_url, restricted, batch_names_lower) ==
    IF ReplaceBranch(p, base_to_url, restricted, batch_names_lower) = "updated"
    THEN [p EXCEPT !.image = match_url_for_name(base_to_url, Strip(p.name))]
    ELSE p

(* the counters of a pass: updated, skipped_not_in_batch, skipped_not_dummy,
   skipped_no_link; none is counted when the ledger is empty *)
NoReport == [updated |-> 0, not_in_batch |-> 0, not_dummy |-> 0, no_link |-> 0]
ReplaceReport(all_products, batch_names, links, restricted) ==
    IF links = <<>> THEN NoReport
    ELSE LET base_to_url == BaseToUrl(links, <<>>)
             lower == {LowerStr(Strip(n)) : n \in batch_names}
             took(b) == Cardinality({i \in 1..Len(all_products) :
                            ReplaceBranch(all_products[i], base_to_url,
                                          restricted, lower) = b})
         IN  [updated |-> took("updated"),
              not_in_batch |-> took("not_in_batch"),
              not_dummy |-> took("not_dummy"),
              no_link |-> took("no_link")]

replace_dummy_images_for_batch(all_products, batch_names, links) ==
    IF links = <<>> THEN all_products
    ELSE LET base_to_url == BaseToUrl(links, <<>>)
             lower == {LowerStr(Strip(n)) : n \in batch_names}
         IN  [i \in 1..Len(all_products) |->
                 ReplaceOne(all_products[i], base_to_url, TRUE, lower)]

replace_images_from_links_all(all_products, links) ==
    IF links = <<>> THEN all_products
    ELSE LET base_to_url == BaseToUrl(links, <<>>)
         IN  [i \in 1..Len(all_products) |->
                 ReplaceOne(all_products[i], base_to_url, FALSE, {})]

----------------------------------------------------------------------------
(* The catalog file as JSON: a list, an object (its pairs in the order of the
   file, keys distinct) or a scalar.  On disk a scalar has a value and a form,
   the way it is spelt (1.50 for 1.5, an escape for a character); parsed, it
   has only its value; json.dump spells every scalar in the canonical form. *)

JList(items) == [list |-> items]
JObject(pairs) == [object |-> pairs]
JScalar(v) == [scalar |-> v]
JWritten(v, form) == [scalar |-> v, form |-> form]
IsList(v) == "list" \in DOMAIN v
IsObject(v) == "object" \in DOMAIN v
IsScalar(v) == "scalar" \in DOMAIN v

LoadValue(v) == IF IsScalar(v) THEN JScalar(v.scalar) ELSE v
DumpValue(v) == IF IsScalar(v) THEN JWritten(v.scalar, "canonical") ELSE v
LoadPairs(pairs) ==
    [i \in 1..Len(pairs) |->
        [key |-> pairs[i].key, value |-> LoadValue(pairs[i].value)]]
DumpPairs(pairs) ==
    [i \in 1..Len(pairs) |->
        [key |-> pairs[i].key, value |-> DumpValue(pairs[i].value)]]

(* json.load(f) *)
json_load(text) ==
    IF IsObject(text) THEN JObject(LoadPairs(text.object))
    ELSE LoadValue(text)

(* json.dump(data_to_write, f, indent=2, ensure_ascii=False) *)
json_dump(data) ==
    IF IsObject(data) THEN JObject(DumpPairs(data.object))
    ELSE DumpValue(data)

None == "None"
WrapperKeys == <<"menu", "items", "products">>

(* load_products: (products_list, wrapper_key) *)
load_products(file) ==
    LET data == json_load(file)
        hits == IF IsObject(data)
                THEN {i \in 1..Len(WrapperKeys) :
                        /\ WrapperKeys[i] \in DictKeys(data.object)
                        /\ IsList(DictGet(data.object, WrapperKeys[i]))}
                ELSE {}
    IN  IF IsList(data)
        THEN [products |-> data.list, wrapper_key |-> None]
        ELSE IF hits # {}
        THEN [products |-> DictGet(data.object, WrapperKeys[Min(hits)]).list,
              wrapper_key |-> WrapperKeys[Min(hits)]]
        ELSE [products |-> <<>>, wrapper_key |-> None]

(* variant: the object written holds the wrapper key alone *)
save_products_wrapper_alone(file, ps, wrapper_key, ok) ==
    IF ~ok THEN file
    ELSE IF wrapper_key = None THEN json_dump(JList(ps))
    ELSE json_dump(JObject(<<[key |-> wrapper_key,
                             value |-> JList(ps)]>>))

(* save_products, inplace; ok: nothing raised, else the file is as it was *)
save_products(file, ps, wrapper_key, ok) ==
    IF ~ok THEN file
    ELSE IF wrapper_key = None THEN json_dump(JList(ps))
    ELSE json_dump(JObject(DictSet(json_load(file).object, wrapper_key,
                                   JList(ps))))

NoDocument == [pc |-> "none"]

----------------------------------------------------------------------------
(* The two compressors: resize_image_for_size of image_fetcher.py and of
   imageuploader.py.  An image is its width, its height and how much detail
   it holds; the size of its JPEG encoding grows with the pixels, the quality
   and the detail, over a fixed header. *)

JPEG_HEADER == 600
JPEG_SCALE == 270

(* image.save(buffer, format='JPEG', quality=quality); buffer.tell() *)
EncodedSize(width, height, detail, quality) ==
    JPEG_HEADER + (width * height * quality * detail) \div JPEG_SCALE

(* int(n * 0.8) *)
Scale08(n) == (n * 8) \div 10

NoCompress == [who |-> "none"]

(* the locals of an execution when it enters the loop; run tells the first
   execution on an image and budget from the second *)
CompressEntry(who, image, max_kb, run, first) ==
    [who |-> who, pc |-> "loop", run |-> run, first |-> first,
     image |-> image, max_kb |-> max_kb, max_bytes |-> max_kb * 1024,
     quality |-> IF who = "fetcher" THEN 90 ELSE 95,
     width |-> image.width, height |-> image.height,
     current_size |-> 0, tested |-> 0, steps |-> <<>>, exit |-> "none",
     before |-> [quality |-> 0, width |-> 0, height |-> 0]]

(* the encoding at the head of an iteration *)
Encoded(st) ==
    [st EXCEPT
        !.current_size = EncodedSize(st.width, st.height, st.image.detail,
                                     st.quality),
        !.tested = st.quality,
        !.steps = Append(@, <<st.quality, st.width, st.height>>),
        !.before = [quality |-> st.quality, width |-> st.width,
                    height |-> st.height]]

Stopped(st, how) == [st EXCEPT !.pc = "returned", !.exit = how]

(* variant: the downscale resizes the caller's image in place, as
   Image.thumbnail would, so a later execution starts from what is left *)
fetcher_iteration_in_place(st) ==
    LET e == Encoded(st)
        new_width == Scale08(e.width)
        new_height == Scale08(e.height)
    IN  IF e.current_size <= e.max_bytes THEN Stopped(e, "fit")
        ELSE IF e.quality > 25 THEN [e EXCEPT !.quality = @ - 5]
        ELSE IF new_width = 0 \/ new_height = 0
             THEN [e EXCEPT !.pc = "raised", !.exit = "raised"]
        ELSE [e EXCEPT !.width = new_width, !.height = new_height,
                       !.quality = 80,
                       !.image = [@ EXCEPT !.width = new_width,
                                           !.height = new_height]]

(* variant: over the budget, the image is downscaled before the quality is
   stepped down *)
fetcher_iteration_dimension_first(st) ==
    LET e == Encoded(st)
        new_width == Scale08(e.width)
        new_height == Scale08(e.height)
    IN  IF e.current_size <= e.max_bytes THEN Stopped(e, "fit")
        ELSE IF new_width = 0 \/ new_height = 0
             THEN [e EXCEPT !.pc = "raised", !.exit = "raised"]
        ELSE IF Min({e.width, e.height}) >= 300
             THEN [e EXCEPT !.width = new_width, !.height = new_height]
        ELSE IF e.quality > 25 THEN [e EXCEPT !.quality = @ - 5]
        ELSE [e EXCEPT !.width = new_width, !.height = new_height,
                       !.quality = 80]

(* image_fetcher.resize_image_for_size: one iteration of the while loop *)
fetcher_iteration(st) ==
    LET e == Encoded(st)
        new_width == Scale08(e.width)
        new_height == Scale08(e.height)
    IN  IF e.current_size <= e.max_bytes THEN Stopped(e, "fit")
        ELSE IF e.quality > 25 THEN [e EXCEPT !.quality = @ - 5]
        ELSE IF Min({e.width, e.height}) < 300 /\ e.quality <= 10
             THEN Stopped(e, "too_small")
        ELSE IF new_width = 0 \/ new_height = 0
             THEN [e EXCEPT !.pc = "raised", !.exit = "raised"]
        ELSE IF 80 <= 10 /\ e.current_size > e.max_bytes
             THEN Stopped([e EXCEPT !.width = new_width,
                                    !.height = new_height, !.quality = 80],
                          "hard_stop")
        ELSE [e EXCEPT !.width = new_width, !.height = new_height,
                       !.quality = 80]

(* imageuploader.resize_image_for_size: one iteration of the while loop *)
uploader_iteration(st) ==
    LET e == Encoded(st)
    IN  IF e.current_size <= e.max_bytes THEN Stopped(e, "fit")
        ELSE IF e.quality <= 10 THEN Stopped(e, "min_quality")
        ELSE IF e.quality - 15 < 10 THEN
            IF e.width * 8 < 1000 \/ e.height * 8 < 1000
            THEN Stopped([e EXCEPT !.quality = 10], "too_small")
            ELSE [e EXCEPT !.width = Scale08(e.width),
                           !.height = Scale08(e.height), !.quality = 85]
        ELSE [e EXCEPT !.quality = @ - 15]

----------------------------------------------------------------------------
(* The text-generation call and what main makes of it. *)

(* variant: whatever items were recognised in the text are returned *)
process_batch_salvaging(api_response) == api_response.items

(* process_batch: [] on an error response or an unparsable text *)
process_batch(api_response) ==
    IF api_response.kind = "error" THEN <<>>
    ELSE IF api_response.kind = "unparsable" THEN <<>>
    ELSE api_response.items

(* main: "if not results: return" *)
NoResults(processed_results) == processed_results = <<>>

(* switch_api_key *)
CanSwitchKey(index, n) == index < n - 1

NoCall == [pc |-> "none"]
NoFetch == [pc |-> "none"]
NoLedger == [pc |-> "none"]

(* call_gemini_api_with_retry with n keys configured: the loop over
   range(MAX_RETRIES), the requests answered as outcomes says; get_api_url
   raises IndexError when API_KEYS[CURRENT_KEY_INDEX] does not exist, and
   the loop catches request exceptions only *)
RECURSIVE GeminiLoop(_, _, _, _)
GeminiLoop(outcomes, n, att, index) ==
    IF att >= MAX_RETRIES THEN
        [kind |-> "error", why |-> "retries", keyIndex |-> index]
    ELSE IF ~(index < n) THEN
        [kind |-> "raised", why |-> "IndexError", keyIndex |-> index]
    ELSE IF outcomes[att + 1] = "429" THEN
        IF CanSwitchKey(index, n)
        THEN GeminiLoop(outcomes, n, att + 1, index + 1)
        ELSE [kind |-> "error", why |-> "exhausted", keyIndex |-> index]
    ELSE IF outcomes[att + 1] = "err" THEN
        GeminiLoop(outcomes, n, att + 1, index)
    ELSE [kind |-> "ok", why |-> "ok", keyIndex |-> index]

call_gemini_api_with_retry(outcomes, n) == GeminiLoop(outcomes, n, 0, 0)

HttpOutcomes == {"429", "err", "ok"}

(* every way the call can end, with 1 to MaxKeys keys configured *)
CallResults ==
    UNION {{call_gemini_api_with_retry(outs, n) :
               outs \in [1..MAX_RETRIES -> HttpOutcomes]} : n \in 1..MaxKeys}
CallErrors == {r.why : r \in {x \in CallResults : x.kind = "error"}}
CallCanAnswer == {x \in CallResults : x.kind = "ok"} # {}

----------------------------------------------------------------------------
(* The image fetcher: image_fetcher.py.  CURRENT_KEY_INDEX is a module
   global: it starts at 0 in a process and is never reset. *)

(* what a request to the search service can come to: links, no link, a
   rateLimitExceeded error, any other error (invalid key, another HTTP
   error, any other exception) *)
SearchOutcomes == {"urls", "empty", "rate_limit", "error"}

(* search_product_images_api, the loop over range(len(API_KEYS)) with n keys:
   outs[attempt + 1] is what the request of that iteration comes to *)
RECURSIVE SearchLoop(_, _, _, _)
SearchLoop(n, outs, attempt, index) ==
    IF attempt >= n THEN [kind |-> "exhausted", index |-> index]
    ELSE IF ~(index < n) THEN [kind |-> "raised", index |-> index]
    ELSE IF outs[attempt + 1] \in {"urls", "empty"}
         THEN [kind |-> outs[attempt + 1], index |-> index]
    ELSE IF index + 1 < n THEN SearchLoop(n, outs, attempt + 1, index + 1)
    ELSE [kind |-> "exhausted", index |-> index + 1]

(* the values of CURRENT_KEY_INDEX the loop picks a key with *)
RECURSIVE SearchPicks(_, _, _, _)
SearchPicks(n, outs, attempt, index) ==
    IF attempt >= n THEN {}
    ELSE IF ~(index < n) THEN {index}
    ELSE IF outs[attempt + 1] \in {"urls", "empty"} THEN {index}
    ELSE IF index + 1 < n
         THEN {index} \cup SearchPicks(n, outs, attempt + 1, index + 1)
    ELSE {index}

(* search_product_images_api: placeholder links when no key or no search
   engine id is configured *)
search_product_images_api(n, cse, outs, index) ==
    IF n = 0 \/ ~cse THEN [kind |-> "placeholder", index |-> index]
    ELSE SearchLoop(n, outs, 0, index)

HasUrls(r) == r.kind \in {"urls", "placeholder"}

(* str(counter) *)
Digit(k) == <<"0", "1", "2", "3", "4", "5", "6", "7", "8", "9">>[k + 1]

(* save_selected_image: clean_name *)
clean_name(product_name) ==
    LET kept == SelectSeq(product_name,
                    LAMBDA c : c \in AlnumChars \cup {" ", "-", "_"})
    IN  [i \in 1..Len(RStrip(kept)) |->
            IF RStrip(kept)[i] = " " THEN "_" ELSE RStrip(kept)[i]]

JPG == <<".", "j", "p", "g">>

(* variant: the name is taken as it is, whatever is in the folder *)
unique_filename_unchecked(filename_base, files, counter) ==
    filename_base \o JPG

(* save_selected_image: the loop "while os.path.exists(filepath)" *)
RECURSIVE unique_filename(_, _, _)
unique_filename(filename_base, files, counter) ==
    LET filename == IF counter = 0 THEN filename_base \o JPG
                    ELSE filename_base \o <<"_", Digit(counter)>> \o JPG
    IN  IF filename \in files
        THEN unique_filename(filename_base, files, counter + 1)
        ELSE filename

----------------------------------------------------------------------------
(* The link file: imageuploader.generate_output_batches writes it,
   descriptionwriter.parse_s3_links_file reads it, character by character. *)

(* "--- S3 Upload Links Batch Output ---\n\n" *)
LedgerTitle ==
    <<"-", "-", "-", " ", "S", "3", " ", "U", "p", "l", "o", "a", "d", " ",
      "L", "i", "n", "k", "s", " ", "B", "a", "t", "c", "h", " ", "O", "u",
      "t", "p", "u", "t", " ", "-", "-", "-", NL, NL>>

(* f"===== BATCH {batch_num} (Images {i+1} to {min(i + batch_size,
   num_items)}) =====\n" *)
BatchHeader(batch_num, first, last) ==
    <<"=", "=", "=", "=", "=", " ", "B", "A", "T", "C", "H", " ">>
    \o <<Digit(batch_num)>> \o
    <<" ", "(", "I", "m", "a", "g", "e", "s", " ">>
    \o <<Digit(first)>> \o <<" ", "t", "o", " ">> \o <<Digit(last)>> \o
    <<")", " ", "=", "=", "=", "=", "=", NL>>

(* for filename, url in batch: f.write(f"{filename},{url}\n") *)
LinkLines(items) ==
    Flatten([k \in 1..Len(items) |->
                items[k].key \o <<",">> \o items[k].value \o <<NL>>])

(* for i in range(0, num_items, batch_size): header, lines, empty line *)
RECURSIVE WriteBatches(_, _, _)
WriteBatches(items, size, i) ==
    IF i >= Len(items) THEN <<>>
    ELSE BatchHeader(i \div size + 1, i + 1,
                     Min({i + size, Len(items)}))
         \o LinkLines(SubSeq(items, i + 1,
                              Min({i + size, Len(items)})))
         \o <<NL>>
         \o WriteBatches(items, size, i + size)

(* generate_output_batches: the text of the file *)
generate_output_batches(uploaded_links, size) ==
    LedgerTitle \o WriteBatches(uploaded_links, size, 0)

(* parse_s3_links_file: the loop over the lines of the file *)
RECURSIVE ParseLinkLines(_, _)
ParseLinkLines(raws, links) ==
    IF raws = <<>> THEN links
    ELSE LET line == Strip(Head(raws))
             commas == {i \in 1..Len(line) : line[i] = ","}
             filename == Strip(SubSeq(line, 1, Min(commas) - 1))
             url == Strip(SubSeq(line, Min(commas) + 1, Len(line)))
         IN  IF line = <<>> \/ StartsWith(line, <<"-">>)
                \/ StartsWith(line, <<"=">>)
             THEN ParseLinkLines(Tail(raws), links)
             ELSE IF commas # {} /\ filename # <<>> /\ url # <<>>
             THEN ParseLinkLines(Tail(raws), DictSet(links, filename, url))
             ELSE ParseLinkLines(Tail(raws), links)

parse_s3_links_file(text) == ParseLinkLines(FileLines(text), <<>>)

----------------------------------------------------------------------------
(* Inputs of the model. *)

Product(n, d, img) ==
    [name |-> n, description |-> d, image |-> img, extra |-> "x"]

InitProducts == {Product(<<"a">>, <<"d">>, DUMMY_IMAGE_URL),
                 Product(<<"b">>, <<"d">>, DUMMY_IMAGE_URL)}
(* the free-form field of a product tells the products of a catalog apart *)
Numbered(ps) ==
    [i \in 1..Len(ps) |->
        [ps[i] EXCEPT !.extra = <<"x1", "x2", "x3", "x4">>[i]]]
InitCatalogs == {Numbered(c) : c \in [1..MaxProducts -> InitProducts]}

InitLinks == {<<[stem |-> <<"E">>, url |-> <<"u">>]>>}

Item(o, n, d) ==
    [originalName |-> o, enhancedName |-> n, enhancedDescription |-> d]
(* what the service may say of the product named o: a new name and
   description, or, of product a, the name of product b with a trailing blank
   and no description *)
ItemsFor(o) ==
    {Item(o, <<"E">>, <<"d", "2">>)} \cup
    (IF o = <<"a">> THEN {Item(o, <<"b", " ">>, <<>>)} ELSE {})
Responses(ps, n) ==
    LET origs == {ps[i].name : i \in 1..Len(ps)}
        items == UNION {ItemsFor(o) : o \in origs}
    IN  UNION {[1..k -> items] : k \in 0..n}

CatalogNameSet(cat) == {Strip(cat[i].name) : i \in 1..Len(cat)}

NoRun == [catalog |-> <<>>, processed |-> <<>>, batch |-> <<>>]

(* history of the last answered run: the batch products for which the
   response had no entry (all), and those of them whose name is none of the
   names the run records (clear) *)
OmittedBy(ps, b, res, recorded) ==
    LET all == {b[k] : k \in 1..Len(b)} \
               {i \in 1..Len(ps) :
                   \E j \in 1..Len(res) : res[j].originalName = ps[i].name}
    IN  [all |-> all,
         clear |-> {i \in all : Strip(ps[i].name) \notin
                                   Range(StrippedLines(NameLines(recorded)))}]
NoneOmitted == [all |-> {}, clear |-> {}]

----------------------------------------------------------------------------
(* The state machine. *)

durable == <<catalogFile, processedFile, batchFile, linksFile>>
locals == <<products, batch_size, batch, results, enhanced_names, updated,
            apiResult>>
matchIO == <<match_name, match_url>>
replaceIO == <<replace_mode, replace_report>>
imageIO == <<comp>>
serviceIO == <<call, fetch, ledger>>
pureIO ==
    <<names_in, names_out, matchIO, replaceIO, imageIO, document, serviceIO>>

(* no call of the matcher or of a replacement pass on its own is under way *)
ServicesQuiet ==
    /\ call = NoCall
    /\ fetch = NoFetch
    /\ ledger = NoLedger

PureQuiet ==
    /\ match_name = <<>>
    /\ match_url = NoUrl
    /\ replace_mode = "none"
    /\ replace_report = NoReport
    /\ comp = NoCompress
    /\ document = NoDocument
    /\ ServicesQuiet

LocalsReset ==
    /\ batch_size' = 0
    /\ products' = <<>>
    /\ batch' = <<>>
    /\ results' = <<>>
    /\ enhanced_names' = <<>>
    /\ updated' = 0
    /\ apiResult' = "none"
    /\ run0' = NoRun

Init ==
    /\ pc = "idle"
    /\ catalogFile \in InitCatalogs
    /\ processedFile = <<>>
    /\ batchFile = <<>>
    /\ linksFile \in InitLinks
    /\ products = <<>>
    /\ batch_size = 0
    /\ batch = <<>>
    /\ results = <<>>
    /\ enhanced_names = <<>>
    /\ updated = 0
    /\ apiResult = "none"
    /\ names_in = <<>>
    /\ names_out = <<>>
    /\ everNames = CatalogNameSet(catalogFile)
    /\ run0 = NoRun
    /\ omitted = NoneOmitted
    /\ entries = 0
    /\ faults = 0
    /\ PureQuiet

(* a write either succeeds or fails; failures are counted *)
Outcome(ok) ==
    /\ ok \/ faults < MaxFaults
    /\ faults' = IF ok THEN faults ELSE faults + 1

(* save_products: the file is rewritten, or the write fails and it is kept *)
(* the catalog of the pipeline is a file with a list root *)
Save(ps, ok) ==
    /\ catalogFile' = save_products(JList(catalogFile), ps, None, ok).list
    /\ everNames' = everNames \cup CatalogNameSet(catalogFile')

(* main, steps 1-2, a batch was selected *)
MainSelect ==
    /\ pc = "idle"
    /\ catalogFile # <<>>
    /\ \E size \in 0..MaxBatchSize :
        LET b == select_next_batch(catalogFile, size, processedFile)
        IN  /\ b # <<>>
            /\ batch_size' = size
            /\ batch' = b
    /\ products' = catalogFile
    /\ pc' = "selected"
    /\ run0' = [catalog |-> catalogFile, processed |-> processedFile,
                batch |-> batchFile]
    /\ UNCHANGED <<durable, results, enhanced_names, updated, apiResult,
                   pureIO, everNames, omitted, entries, faults>>

(* main, steps 1-2, nothing left to select: the replacement-only pass *)
MainReplaceOnly ==
    /\ pc = "idle"
    /\ catalogFile # <<>>
    /\ \E size \in 0..MaxBatchSize :
        select_next_batch(catalogFile, size, processedFile) = <<>>
    /\ LET batch_names == read_batch_names(batchFile)
       IN  /\ batch_names # <<>>
           /\ \E ok \in BOOLEAN :
                Save(replace_dummy_images_for_batch(
                         catalogFile, Range(batch_names), linksFile), ok)
    /\ UNCHANGED <<pc, processedFile, batchFile, linksFile, locals, pureIO,
                   run0, omitted, entries, faults>>

(* main, steps 3-4: what follows the return of call_gemini_api_with_retry *)
AfterCall(api_response, how) ==
    LET res == process_batch(api_response)
        applied == apply_enhancements_to_products(products, res)
    IN  /\ results' = res
        /\ apiResult' = how
        /\ IF NoResults(res)
           THEN /\ pc' = "aborted"
                /\ products' = <<>>
                /\ batch_size' = 0
                /\ batch' = <<>>
                /\ UNCHANGED <<enhanced_names, updated, omitted>>
           ELSE /\ pc' = "applied"
                /\ products' = applied.products
                /\ enhanced_names' = applied.enhanced_names
                /\ updated' = applied.updated
                /\ omitted' = OmittedBy(products, batch, res,
                                       applied.enhanced_names)
                /\ UNCHANGED <<batch_size, batch>>

ErrorResponse == [kind |-> "error", items |-> <<>>]

(* process_batch with no key configured: get_api_url raises IndexError on
   API_KEYS[0], which nothing catches *)
CallWithoutKeys ==
    /\ pc = "selected"
    /\ pc' = "crashed"
    /\ products' = <<>>
    /\ batch_size' = 0
    /\ batch' = <<>>
    /\ UNCHANGED <<durable, results, enhanced_names, updated, apiResult, pureIO,
                   everNames, run0, omitted, entries, faults>>

(* process_batch, the call ends in an error response *)
CallFails ==
    /\ pc = "selected"
    /\ \E why \in CallErrors : AfterCall(ErrorResponse, why)
    /\ UNCHANGED <<durable, pureIO, everNames, run0, entries, faults>>

(* process_batch, the service answers with a text that json.loads rejects *)
CallUnparsable ==
    /\ pc = "selected"
    /\ CallCanAnswer
    /\ \E items \in Responses(products, 1) :
        AfterCall([kind |-> "unparsable", items |-> items], "unparsable")
    /\ UNCHANGED <<durable, pureIO, everNames, run0, entries, faults>>

(* process_batch, the service answers with a JSON array *)
CallAnswers ==
    /\ pc = "selected"
    /\ CallCanAnswer
    /\ \E items \in Responses(products, MaxEntries - entries) :
        /\ AfterCall([kind |-> "ok", items |-> items], "ok")
        /\ entries' = entries + Len(items)
    /\ UNCHANGED <<durable, pureIO, everNames, run0, faults>>

(* main, step 5a: write_batch_names, which may fail with a warning *)
WriteBatchNames ==
    /\ pc = "applied"
    /\ \E ok \in BOOLEAN :
        /\ Outcome(ok)
        /\ batchFile' = IF ok THEN write_batch_names(batchFile, enhanced_names)
                        ELSE batchFile
    /\ pc' = "batch_written"
    /\ UNCHANGED <<catalogFile, processedFile, linksFile, locals, pureIO, everNames, run0, omitted, entries>>

(* main, step 5b: append_processed_names, which may fail with a warning *)
AppendProcessedNames ==
    /\ pc = "batch_written"
    /\ \E ok \in BOOLEAN :
        /\ Outcome(ok)
        /\ processedFile' =
              IF ok THEN append_processed_names(processedFile, enhanced_names)
              ELSE processedFile
    /\ pc' = "recorded"
    /\ UNCHANGED <<catalogFile, batchFile, linksFile, locals,
                   pureIO, everNames, run0, omitted, entries>>

(* main, steps 6-7: replace the dummy images of the batch, save the catalog *)
ReplaceAndSave ==
    /\ pc = "recorded"
    /\ LET replaced == replace_dummy_images_for_batch(
                           products, Range(enhanced_names), linksFile)
       IN  /\ products' = replaced
           /\ \E ok \in BOOLEAN : Outcome(ok) /\ Save(replaced, ok)
    /\ pc' = "done"
    /\ UNCHANGED <<processedFile, batchFile, linksFile, batch_size, batch,
                   results, enhanced_names, updated, apiResult, pureIO, run0,
                   omitted, entries>>

(* the process returns, or dies of the uncaught exception *)
Exit ==
    /\ pc \in {"aborted", "done", "crashed"}
    /\ pc' = "idle"
    /\ LocalsReset
    /\ UNCHANGED <<durable, pureIO, everNames, omitted, entries, faults>>

(* the process is terminated between two steps of main's step 5 to 7 (before
   them it has written nothing, and leaves what an aborted run leaves) *)
Terminate ==
    /\ pc \in {"applied", "batch_written", "recorded"}
    /\ Outcome(FALSE)
    /\ pc' = "idle"
    /\ LocalsReset
    /\ UNCHANGED <<durable, pureIO, everNames, omitted, entries>>

(* replace_images_for_last_batch (--replace-only) *)
ReplaceLastBatch ==
    /\ pc = "idle"
    /\ catalogFile # <<>>
    /\ LET batch_names == read_batch_names(batchFile)
       IN  /\ batch_names # <<>>
           /\ \E ok \in BOOLEAN :
                Save(replace_dummy_images_for_batch(
                         catalogFile, Range(batch_names), linksFile), ok)
    /\ UNCHANGED <<pc, processedFile, batchFile, linksFile, locals, pureIO, run0, omitted, entries, faults>>

(* replace_images_from_links_all (--replace-from-links-all) *)
ReplaceAll ==
    /\ pc = "idle"
    /\ catalogFile # <<>>
    /\ linksFile # <<>>
    /\ \E ok \in BOOLEAN :
        Save(replace_images_from_links_all(catalogFile, linksFile), ok)
    /\ UNCHANGED <<pc, processedFile, batchFile, linksFile, locals, pureIO, run0, omitted, entries, faults>>

(* tidy_workspace(clear_links=True): s3_upload_links.txt is truncated *)
TidyWorkspace ==
    /\ pc = "idle"
    /\ linksFile' = <<>>
    /\ UNCHANGED <<pc, catalogFile, processedFile, batchFile, locals, pureIO, everNames, run0, omitted, entries,
                   faults>>

Next ==
    \/ MainSelect
    \/ MainReplaceOnly
    \/ CallWithoutKeys
    \/ CallFails
    \/ CallUnparsable
    \/ CallAnswers
    \/ WriteBatchNames
    \/ AppendProcessedNames
    \/ ReplaceAndSave
    \/ Exit
    \/ Terminate
    \/ ReplaceLastBatch
    \/ ReplaceAll
    \/ TidyWorkspace

Spec == Init /\ [][Next]_vars

----------------------------------------------------------------------------
(* _select_next_batch on its own: every catalog, tracker file and size. *)

SelectNames == {<<>>, <<" ">>, <<"a">>, <<"b">>, <<"a", " ">>}
SelectCatalogs ==
    SeqsUpTo({Product(n, <<"d">>, DUMMY_IMAGE_URL) : n \in SelectNames},
             MaxProducts)
SelectTrackers == {NameLines(ns) : ns \in SeqsUpTo({<<"a">>, <<"b">>}, MaxLines)}

InitSelect ==
    /\ pc = "select_in"
    /\ catalogFile \in SelectCatalogs
    /\ processedFile \in SelectTrackers
    /\ batch_size \in 0..MaxBatchSize
    /\ batchFile = <<>>
    /\ linksFile = <<>>
    /\ products = catalogFile
    /\ batch = <<>>
    /\ results = <<>>
    /\ enhanced_names = <<>>
    /\ updated = 0
    /\ apiResult = "none"
    /\ names_in = <<>>
    /\ names_out = <<>>
    /\ everNames = {}
    /\ run0 = NoRun
    /\ omitted = NoneOmitted
    /\ entries = 0
    /\ faults = 0
    /\ PureQuiet

SelectCall ==
    /\ pc = "select_in"
    /\ batch' = select_next_batch(products, batch_size, processedFile)
    /\ pc' = "select_out"
    /\ UNCHANGED <<durable, products, batch_size, results, enhanced_names,
                   updated, apiResult, pureIO, everNames, run0, omitted,
                   entries, faults>>

SpecSelect == InitSelect /\ [][SelectCall]_vars

----------------------------------------------------------------------------
(* write_batch_names followed by read_batch_names on their own. *)

Texts == SeqsUpTo(Alphabet, MaxChars)

(* the names a text falls into when it is cut at the positions c *)
Pieces(t, c) ==
    [i \in 1..(Len(c) + 1) |->
        SubSeq(t, (IF i = 1 THEN 0 ELSE c[i - 1]) + 1,
                  IF i = Len(c) + 1 THEN Len(t) ELSE c[i])]
Cuts(t) ==
    UNION {{c \in [1..k -> 0..Len(t)] :
               \A i \in 1..k : \A j \in i..k : c[i] <= c[j]} :
           k \in 0..(MaxNames - 1)}
NameLists == {<<>>} \cup UNION {{Pieces(t, c) : c \in Cuts(t)} : t \in Texts}

OldBatchFiles == {<<>>, NameLines(<<<<"a">>>>)}

InitBatchFile ==
    /\ pc = "file_in"
    /\ names_in \in NameLists
    /\ batchFile \in OldBatchFiles
    /\ names_out = <<>>
    /\ catalogFile = <<>>
    /\ processedFile = <<>>
    /\ linksFile = <<>>
    /\ products = <<>>
    /\ batch_size = 0
    /\ batch = <<>>
    /\ results = <<>>
    /\ enhanced_names = <<>>
    /\ updated = 0
    /\ apiResult = "none"
    /\ everNames = {}
    /\ run0 = NoRun
    /\ omitted = NoneOmitted
    /\ entries = 0
    /\ faults = 0
    /\ PureQuiet

(* the write succeeds, or fails with a warning and leaves the file; the read
   follows *)
WriteReadBatchNames ==
    /\ pc = "file_in"
    /\ \E ok \in BOOLEAN :
        /\ faults' = IF ok THEN 0 ELSE 1
        /\ batchFile' = IF ok THEN write_batch_names(batchFile, names_in)
                        ELSE batchFile
    /\ names_out' = read_batch_names(batchFile')
    /\ pc' = "file_out"
    /\ UNCHANGED <<catalogFile, processedFile, linksFile, locals, names_in,
                   matchIO, replaceIO, imageIO, document, serviceIO,
                   everNames, run0, omitted, entries>>

SpecBatchFile == InitBatchFile /\ [][WriteReadBatchNames]_vars

----------------------------------------------------------------------------
(* _apply_enhancements_to_products on its own. *)

ApplyCatalogs ==
    SeqsUpTo({Product(n, <<"d">>, DUMMY_IMAGE_URL) :
                 n \in {<<>>, <<"a">>, <<"b">>}}, MaxProducts)
ApplyItems ==
    {Item(o, n, d) : o \in {<<>>, <<"a">>, <<"b">>, <<"z">>},
                     n \in {<<>>, <<"b">>},
                     d \in {<<>>, <<"d", "2">>}}

InitApply ==
    /\ pc = "apply_in"
    /\ catalogFile \in ApplyCatalogs
    /\ results \in SeqsUpTo(ApplyItems, MaxResults)
    /\ products = catalogFile
    /\ processedFile = <<>>
    /\ batchFile = <<>>
    /\ linksFile = <<>>
    /\ batch_size = 0
    /\ batch = <<>>
    /\ enhanced_names = <<>>
    /\ updated = 0
    /\ apiResult = "none"
    /\ names_in = <<>>
    /\ names_out = <<>>
    /\ everNames = {}
    /\ run0 = NoRun
    /\ omitted = NoneOmitted
    /\ entries = 0
    /\ faults = 0
    /\ PureQuiet

ApplyCall ==
    /\ pc = "apply_in"
    /\ LET applied == apply_enhancements_to_products(products, results)
       IN  /\ products' = applied.products
           /\ updated' = applied.updated
           /\ enhanced_names' = applied.enhanced_names
    /\ pc' = "apply_out"
    /\ UNCHANGED <<durable, batch_size, batch, results, apiResult, pureIO,
                   everNames, run0, omitted, entries, faults>>

SpecApply == InitApply /\ [][ApplyCall]_vars

----------------------------------------------------------------------------
(* _match_url_for_name on its own: every ledger and product name. *)

MatchNames == {<<>>, <<"a">>, <<"a", "!">>, <<"A", " ", "B">>,
               <<"A", " ", "B", " ">>}
MatchStems == {<<"a">>, <<"a", "_", "1">>, <<"a", "_", "2">>,
               <<"a", "_", "3">>, <<"a", "_", "b">>, <<"A", "_", "B">>,
               <<"a", "_", "b", "_", "1">>, <<"a", "_", "b", "_", "e">>,
               <<"e">>, <<"a", "_", "e">>}
MatchUrls == {<<"u">>, <<"v">>}
MatchLedgers ==
    SeqsUpTo({[stem |-> st, url |-> u] : st \in MatchStems, u \in MatchUrls},
             MaxLinks)

InitMatch ==
    /\ pc = "match_in"
    /\ linksFile \in MatchLedgers
    /\ match_name \in MatchNames
    /\ match_url = NoUrl
    /\ replace_mode = "none"
    /\ replace_report = NoReport
    /\ comp = NoCompress
    /\ document = NoDocument
    /\ ServicesQuiet
    /\ catalogFile = <<>>
    /\ processedFile = <<>>
    /\ batchFile = <<>>
    /\ products = <<>>
    /\ batch_size = 0
    /\ batch = <<>>
    /\ results = <<>>
    /\ enhanced_names = <<>>
    /\ updated = 0
    /\ apiResult = "none"
    /\ names_in = <<>>
    /\ names_out = <<>>
    /\ everNames = {}
    /\ run0 = NoRun
    /\ omitted = NoneOmitted
    /\ entries = 0
    /\ faults = 0

MatchCall ==
    /\ pc = "match_in"
    /\ match_url' = match_url_for_name(BaseToUrl(linksFile, <<>>), match_name)
    /\ pc' = "match_out"
    /\ UNCHANGED <<durable, locals, names_in, names_out, match_name,
                   replaceIO, imageIO, document, serviceIO, everNames, run0,
                   omitted, entries, faults>>

SpecMatch == InitMatch /\ [][MatchCall]_vars

----------------------------------------------------------------------------
(* The replacement pass on its own: _replace_dummy_images_for_batch for a
   name set, and the loop of replace_images_from_links_all. *)

ReplaceProducts ==
    {Product(n, <<"d">>, DUMMY_IMAGE_URL) :
        n \in {<<>>, <<"a">>, <<"A">>, <<"b">>}}
    \cup {Product(<<"a">>, <<"d">>, <<"x">>), Product(<<"a">>, <<"d">>, <<" ">>)}
ReplaceCatalogs == SeqsUpTo(ReplaceProducts, MaxCatalog)
ReplaceNameSets == {<<>>, <<<<"a">>>>, <<<<"a">>, <<"b">>>>}
ReplaceLedgers ==
    {<<>>, <<[stem |-> <<"a">>, url |-> <<"u">>]>>,
     <<[stem |-> <<"a">>, url |-> <<"u">>],
       [stem |-> <<"e">>, url |-> <<"v">>]>>}

InitReplace ==
    /\ pc = "replace_in"
    /\ catalogFile \in ReplaceCatalogs
    /\ names_in \in ReplaceNameSets
    /\ linksFile \in ReplaceLedgers
    /\ replace_mode \in {"batch", "all"}
    /\ replace_report = NoReport
    /\ comp = NoCompress
    /\ document = NoDocument
    /\ ServicesQuiet
    /\ products = catalogFile
    /\ updated = 0
    /\ match_name = <<>>
    /\ match_url = NoUrl
    /\ processedFile = <<>>
    /\ batchFile = <<>>
    /\ batch_size = 0
    /\ batch = <<>>
    /\ results = <<>>
    /\ enhanced_names = <<>>
    /\ apiResult = "none"
    /\ names_out = <<>>
    /\ everNames = {}
    /\ run0 = NoRun
    /\ omitted = NoneOmitted
    /\ entries = 0
    /\ faults = 0

(* what a pass of the given mode makes of the catalog ps *)
ReplacePass(mode, ps, names, links) ==
    [products |-> IF mode = "batch"
                  THEN replace_dummy_images_for_batch(ps, Range(names), links)
                  ELSE replace_images_from_links_all(ps, links),
     report |-> ReplaceReport(ps, Range(names), links, mode = "batch")]

ReplaceCall ==
    /\ pc = "replace_in"
    /\ LET pass == ReplacePass(replace_mode, products, names_in, linksFile)
       IN  /\ products' = pass.products
           /\ updated' = pass.report.updated
           /\ replace_report' = pass.report
    /\ pc' = "replace_out"
    /\ UNCHANGED <<durable, batch_size, batch, results, enhanced_names,
                   apiResult, names_in, names_out, matchIO, replace_mode,
                   imageIO, document, serviceIO, everNames, run0, omitted,
                   entries, faults>>

SpecReplace == InitReplace /\ [][ReplaceCall]_vars

----------------------------------------------------------------------------
(* The compressors on their own: every image and budget of the pools, each
   compressed twice by the same compressor. *)

CompressImages ==
    {[width |-> 2000, height |-> 1500, detail |-> 1],
     [width |-> 2000, height |-> 250, detail |-> 1],
     [width |-> 400, height |-> 300, detail |-> 1],
     [width |-> 120, height |-> 90, detail |-> 1],
     [width |-> 400, height |-> 300, detail |-> 0]}
CompressBudgets == {0, 1, 30}

InitCompress ==
    /\ pc = "compress"
    /\ \E who \in {"fetcher", "uploader"}, image \in CompressImages,
          max_kb \in CompressBudgets :
          comp = CompressEntry(who, image, max_kb, 1, <<>>)
    /\ catalogFile = <<>>
    /\ processedFile = <<>>
    /\ batchFile = <<>>
    /\ linksFile = <<>>
    /\ products = <<>>
    /\ batch_size = 0
    /\ batch = <<>>
    /\ results = <<>>
    /\ enhanced_names = <<>>
    /\ updated = 0
    /\ apiResult = "none"
    /\ names_in = <<>>
    /\ names_out = <<>>
    /\ match_name = <<>>
    /\ match_url = NoUrl
    /\ replace_mode = "none"
    /\ replace_report = NoReport
    /\ document = NoDocument
    /\ ServicesQuiet
    /\ everNames = {}
    /\ run0 = NoRun
    /\ omitted = NoneOmitted
    /\ entries = 0
    /\ faults = 0

compressFrame ==
    <<pc, durable, locals, names_in, names_out, matchIO, replaceIO, document,
      serviceIO, everNames, run0, omitted, entries, faults>>

FetcherIteration ==
    /\ comp.who = "fetcher"
    /\ comp.pc = "loop"
    /\ comp' = fetcher_iteration(comp)
    /\ UNCHANGED compressFrame

UploaderIteration ==
    /\ comp.who = "uploader"
    /\ comp.pc = "loop"
    /\ comp' = uploader_iteration(comp)
    /\ UNCHANGED compressFrame

(* what an execution hands back, and how it got there *)
CompressOutcome(st) ==
    [steps |-> st.steps, quality |-> st.quality, width |-> st.width,
     height |-> st.height, exit |-> st.exit]

(* the same compressor is called again on the same image and budget *)
CompressAgain ==
    /\ comp.who # "none"
    /\ comp.pc # "loop"
    /\ comp.run = 1
    /\ comp' = CompressEntry(comp.who, comp.image, comp.max_kb, 2,
                             <<CompressOutcome(comp)>>)
    /\ UNCHANGED compressFrame

NextCompress == FetcherIteration \/ UploaderIteration \/ CompressAgain

SpecCompress == InitCompress /\ [][NextCompress]_vars

----------------------------------------------------------------------------
(* load_products and save_products on catalog files of every shape: a list
   root, a scalar root, an object with up to MaxPairs keys. *)

DocKeys == {"menu", "items", "products", "restaurant"}
DocLists == {<<>>, <<Product(<<"a">>, <<"d">>, DUMMY_IMAGE_URL)>>}
DocScalars == {JWritten("v", "canonical"), JWritten("v", "escaped")}
DocValues == {JList(l) : l \in DocLists} \cup DocScalars
DocPairs == [key : DocKeys, value : DocValues]
Documents ==
    {JObject(pairs) : pairs \in
        {q \in SeqsUpTo(DocPairs, MaxPairs) :
            \A i, j \in 1..Len(q) : q[i].key = q[j].key => i = j}}
    \cup {JList(l) : l \in DocLists} \cup DocScalars

InitDocument ==
    /\ pc = "document"
    /\ \E file \in Documents :
          document = [pc |-> "start", file |-> file, original |-> file,
                      all_products |-> <<>>, wrapper_key |-> None,
                      changed |-> FALSE, saved |-> FALSE]
    /\ comp = NoCompress
    /\ ServicesQuiet
    /\ catalogFile = <<>>
    /\ processedFile = <<>>
    /\ batchFile = <<>>
    /\ linksFile = <<>>
    /\ products = <<>>
    /\ batch_size = 0
    /\ batch = <<>>
    /\ results = <<>>
    /\ enhanced_names = <<>>
    /\ updated = 0
    /\ apiResult = "none"
    /\ names_in = <<>>
    /\ names_out = <<>>
    /\ match_name = <<>>
    /\ match_url = NoUrl
    /\ replace_mode = "none"
    /\ replace_report = NoReport
    /\ everNames = {}
    /\ run0 = NoRun
    /\ omitted = NoneOmitted
    /\ entries = 0
    /\ faults = 0

documentFrame ==
    <<pc, durable, locals, names_in, names_out, matchIO, replaceIO, imageIO,
      serviceIO, everNames, run0, omitted, entries, faults>>

(* all_products, wrapper_key = load_products(input_filename);
   if not all_products: return *)
DocLoad ==
    /\ document.pc = "start"
    /\ LET l == load_products(document.file)
       IN  document' = [document EXCEPT
                !.pc = IF l.products = <<>> THEN "done" ELSE "loaded",
                !.all_products = l.products,
                !.wrapper_key = l.wrapper_key]
    /\ UNCHANGED documentFrame

(* an enrichment or a replacement rewrites fields of the loaded products *)
DocChange ==
    /\ document.pc = "loaded"
    /\ ~document.changed
    /\ \E n \in {<<"a">>, <<"E">>}, img \in {DUMMY_IMAGE_URL, <<"u">>} :
          document' = [document EXCEPT
                !.changed = TRUE,
                !.all_products =
                    [i \in 1..Len(@) |-> [@[i] EXCEPT !.name = n,
                                                      !.image = img]]]
    /\ UNCHANGED documentFrame

(* save_products(input_filename, all_products, wrapper_key, inplace=True) *)
DocSave ==
    /\ document.pc = "loaded"
    /\ \E ok \in BOOLEAN :
          document' = [document EXCEPT
                !.pc = "saved",
                !.saved = ok,
                !.file = save_products(document.file, document.all_products,
                                       document.wrapper_key, ok)]
    /\ UNCHANGED documentFrame

NextDocument == DocLoad \/ DocChange \/ DocSave

SpecDocument == InitDocument /\ [][NextDocument]_vars

----------------------------------------------------------------------------
(* The services on their own: a process that makes the text-generation call
   with 0 to MaxPoolKeys keys configured, or a process that runs
   image_fetcher.main_cli on a list of names with 0 to MaxKeys keys. *)

FetchNames == {<<"a">>, <<"a", " ">>, <<"a", " ", "1">>}
FetchFolders == {{}, {<<"a">> \o JPG}}

InitCall ==
    /\ \E n \in 0..MaxPoolKeys :
          call = [pc |-> "ready", n |-> n, outcomes |-> <<>>,
                  result |-> [kind |-> "none"]]
    /\ fetch = NoFetch

InitFetch ==
    /\ call = NoCall
    /\ \E n \in 0..MaxKeys, cse \in BOOLEAN, folder \in BOOLEAN,
          names \in SeqsUpTo(FetchNames, MaxNames),
          files \in FetchFolders :
          fetch = [pc |-> "start", n |-> n, cse |-> cse, folder |-> folder,
                   CURRENT_KEY_INDEX |-> 0, names |-> names, i |-> 0,
                   attempts |-> 0, last |-> "none", log |-> <<>>,
                   files |-> files, before |-> files, written |-> <<>>,
                   picks |-> {}, exhausted |-> FALSE]

InitServices ==
    /\ pc = "services"
    /\ InitCall \/ InitFetch
    /\ ledger = NoLedger
    /\ comp = NoCompress
    /\ document = NoDocument
    /\ catalogFile = <<>>
    /\ processedFile = <<>>
    /\ batchFile = <<>>
    /\ linksFile = <<>>
    /\ products = <<>>
    /\ batch_size = 0
    /\ batch = <<>>
    /\ results = <<>>
    /\ enhanced_names = <<>>
    /\ updated = 0
    /\ apiResult = "none"
    /\ names_in = <<>>
    /\ names_out = <<>>
    /\ match_name = <<>>
    /\ match_url = NoUrl
    /\ replace_mode = "none"
    /\ replace_report = NoReport
    /\ everNames = {}
    /\ run0 = NoRun
    /\ omitted = NoneOmitted
    /\ entries = 0
    /\ faults = 0

servicesFrame ==
    <<pc, durable, locals, names_in, names_out, matchIO, replaceIO, imageIO,
      document, ledger, everNames, run0, omitted, entries, faults>>

(* process_batch: api_response = call_gemini_api_with_retry(payload) *)
TextCall ==
    /\ call.pc = "ready"
    /\ \E outs \in [1..MAX_RETRIES -> HttpOutcomes] :
          LET r == call_gemini_api_with_retry(outs, call.n)
          IN  call' = [call EXCEPT
                    !.pc = IF r.kind = "raised" THEN "raised" ELSE "returned",
                    !.outcomes = outs,
                    !.result = r]
    /\ UNCHANGED <<fetch, servicesFrame>>

(* main_cli up to the loop over the names *)
MainCli ==
    /\ fetch.pc = "start"
    /\ fetch' = [fetch EXCEPT
            !.pc = IF fetch.folder /\ fetch.names # <<>> THEN "name"
                   ELSE "done",
            !.i = 1]
    /\ UNCHANGED <<call, servicesFrame>>

(* fetch_and_save_best_image returns, main_cli goes on with the next name *)
NextName(f, ok, msg) ==
    [f EXCEPT
        !.log = Append(@, [name |-> f.names[f.i], ok |-> ok, msg |-> msg,
                           searches |-> f.attempts]),
        !.i = @ + 1,
        !.attempts = 0,
        !.last = "none",
        !.pc = IF f.i + 1 > Len(f.names) THEN "done" ELSE "name"]

(* fetch_and_save_best_image: one iteration of
   "while attempts < 3 and not downloaded"; got: a download succeeded *)
FetchIteration(f, outs, got) ==
    LET r == search_product_images_api(f.n, f.cse, outs, f.CURRENT_KEY_INDEX)
        g == [f EXCEPT
                !.attempts = @ + 1,
                !.CURRENT_KEY_INDEX = r.index,
                !.picks = IF f.n = 0 \/ ~f.cse THEN @
                          ELSE @ \cup SearchPicks(f.n, outs, 0,
                                                  f.CURRENT_KEY_INDEX),
                !.exhausted = @ \/ r.kind = "exhausted"]
    IN  IF r.kind = "raised" THEN [g EXCEPT !.pc = "crashed"]
        ELSE IF ~HasUrls(r) THEN
            IF g.attempts >= 3 THEN NextName(g, FALSE, "no_urls")
            ELSE [g EXCEPT !.last = "no_urls"]
        ELSE IF got THEN [g EXCEPT !.pc = "save", !.last = "downloaded"]
        ELSE IF g.attempts < 3 THEN [g EXCEPT !.last = "no_download"]
        ELSE NextName(g, FALSE, "no_download")

(* what the requests of one search come to: the loop returns at the first
   request that answers, so no later request is made and none has an outcome
   of its own *)
SearchRuns(n) ==
    {outs \in [1..n -> SearchOutcomes] :
        \A k \in 2..n :
            outs[k - 1] \in {"urls", "empty"} => outs[k] = outs[k - 1]}

FetchAttempt ==
    /\ fetch.pc = "name"
    /\ \E outs \in SearchRuns(fetch.n), got \in BOOLEAN :
          fetch' = FetchIteration(fetch, outs, got)
    /\ UNCHANGED <<call, servicesFrame>>

(* save_selected_image and the return of fetch_and_save_best_image; ok: the
   final save wrote the file *)
SaveImage ==
    /\ fetch.pc = "save"
    /\ \E ok \in BOOLEAN :
          LET filename == unique_filename(clean_name(fetch.names[fetch.i]),
                                          fetch.files, 0)
              g == [fetch EXCEPT
                      !.files = IF ok THEN @ \cup {filename} ELSE @,
                      !.written = IF ok THEN Append(@, filename) ELSE @]
          IN  fetch' = NextName(g, TRUE, IF ok THEN "saved" ELSE "save_failed")
    /\ UNCHANGED <<call, servicesFrame>>

NextServices == TextCall \/ MainCli \/ FetchAttempt \/ SaveImage

SpecServices == InitServices /\ [][NextServices]_vars

----------------------------------------------------------------------------
(* The link file on its own: a mapping of up to MaxLinks uploaded filenames
   to URLs is written and parsed back. *)

LedgerFilenames ==
    {stem \o JPG : stem \in {<<"a">>, <<"b">>, <<"-", "a">>, <<"=", "a">>,
                              <<"a", ",">>}}
LedgerUrls == {<<"u">>, <<"v">>}
LedgerMappings ==
    {m \in SeqsUpTo([key : LedgerFilenames, value : LedgerUrls], MaxLinks) :
        \A i, j \in 1..Len(m) : m[i].key = m[j].key => i = j}

InitLedger ==
    /\ pc = "ledger"
    /\ \E m \in LedgerMappings, size \in {1, MaxLinks} :
          ledger = [pc |-> "links", uploaded_links |-> m,
                    batch_size |-> size, file |-> <<>>,
                    links |-> <<>>]
    /\ call = NoCall
    /\ fetch = NoFetch
    /\ comp = NoCompress
    /\ document = NoDocument
    /\ catalogFile = <<>>
    /\ processedFile = <<>>
    /\ batchFile = <<>>
    /\ linksFile = <<>>
    /\ products = <<>>
    /\ batch_size = 0
    /\ batch = <<>>
    /\ results = <<>>
    /\ enhanced_names = <<>>
    /\ updated = 0
    /\ apiResult = "none"
    /\ names_in = <<>>
    /\ names_out = <<>>
    /\ match_name = <<>>
    /\ match_url = NoUrl
    /\ replace_mode = "none"
    /\ replace_report = NoReport
    /\ everNames = {}
    /\ run0 = NoRun
    /\ omitted = NoneOmitted
    /\ entries = 0
    /\ faults = 0

ledgerFrame ==
    <<pc, durable, locals, names_in, names_out, matchIO, replaceIO, imageIO,
      document, call, fetch, everNames, run0, omitted, entries, faults>>

(* run_pipeline, step 3: generate_output_batches(links, BATCH_SIZE), which
   is called only with a non-empty mapping *)
WriteLedger ==
    /\ ledger.pc = "links"
    /\ ledger.uploaded_links # <<>>
    /\ ledger' = [ledger EXCEPT
            !.pc = "written",
            !.file = generate_output_batches(ledger.uploaded_links,
                                             ledger.batch_size)]
    /\ UNCHANGED ledgerFrame

(* links = parse_s3_links_file() *)
ParseLedger ==
    /\ ledger.pc = "written"
    /\ ledger' = [ledger EXCEPT
            !.pc = "parsed",
            !.links = parse_s3_links_file(ledger.file)]
    /\ UNCHANGED ledgerFrame

NextLedger == WriteLedger \/ ParseLedger

SpecLedger == InitLedger /\ [][NextLedger]_vars

----------------------------------------------------------------------------
(* Properties. *)

(* a product can be selected: its trimmed name is non-empty and not in the
   Processed Set *)
Eligible(ps, processed) ==
    SelectSeq([i \in 1..Len(ps) |-> i],
              LAMBDA i : /\ Strip(ps[i].name) # <<>>
                         /\ Strip(ps[i].name) \notin processed)

(* C1: select-next-batch never returns a product whose name is in the
   Processed Set, and returns at most batchSize products. *)
C1_SelectedWithinBatchSize ==
    pc = "select_out" =>
        /\ \A k \in 1..Len(batch) :
              products[batch[k]].name
                  \notin read_processed_names(processedFile)
        /\ Len(batch) <= batch_size

(* C2: select-next-batch returns the first min(batchSize, k) products, in
   catalog order, among the k products with a non-empty name that is not in
   the Processed Set. *)
C2_SelectedIsEligiblePrefix ==
    pc = "select_out" =>
        LET elig == Eligible(products, read_processed_names(processedFile))
        IN  batch = SubSeq(elig, 1, Min({batch_size, Len(elig)}))

(* a name that a line of the batch file holds as it is *)
CleanName(n) == n # <<>> /\ Strip(n) = n /\ NL \notin Range(n)

(* C3, as stated: reading the Current Batch back right after writing a
   sequence of names yields that sequence, in order. *)
C3_BatchFileRoundTrip ==
    pc = "file_out" => names_out = names_in

(* C3, amended: the read yields the written sequence when the write
   succeeded and every name is non-empty, has no leading or trailing
   whitespace and contains no line break. *)
C3_CleanBatchFileRoundTrip ==
    (pc = "file_out" /\ faults = 0
       /\ \A k \in 1..Len(names_in) : CleanName(names_in[k]))
    => names_out = names_in

C3_Witness ==
    /\ pc = "file_out"
    /\ faults = 0
    /\ Len(names_in) = 2
    /\ \A k \in 1..2 : CleanName(names_in[k])
    /\ names_in[1] # names_in[2]
    /\ names_out = names_in

(* C4: when no run is in progress, every name of the Current Batch is in the
   Processed Set, also after runs in which a write failed or which were
   terminated between steps. *)
C4_BatchWithinProcessed ==
    pc = "idle" =>
        Range(read_batch_names(batchFile))
            \subseteq read_processed_names(processedFile)

(* C5: no step of the pipeline, the workspace cleanup included, removes a
   name from the Processed Set: a step that changes the tracker file keeps
   every name that could be read from it. *)
C5_ProcessedOnlyGrows ==
    [][processedFile' # processedFile =>
           read_processed_names(processedFile)
               \subseteq read_processed_names(processedFile')]_vars

C5_Witness ==
    /\ pc = "aborted"
    /\ linksFile = <<>>
    /\ Cardinality(read_processed_names(processedFile)) >= 2

(* C6: when no run is in progress, every name in the Processed Set is a name
   that some product of the persisted catalog has or has had. *)
C6_ProcessedWithinCatalogNames ==
    pc = "idle" => read_processed_names(processedFile) \subseteq everNames

(* C7: when the text-generation call fails for good (retries used up, or
   every key rate-limited) or its response cannot be parsed, the run ends
   without a crash, with an empty result set, and leaves the catalog, the
   Processed Set and the Current Batch as they were when it started. *)
C7_FailedCallLeavesFiles ==
    apiResult \in {"retries", "exhausted", "unparsable"} =>
        /\ pc = "aborted"
        /\ results = <<>>
        /\ catalogFile = run0.catalog
        /\ processedFile = run0.processed
        /\ batchFile = run0.batch

C7_Witness ==
    /\ pc = "aborted"
    /\ apiResult \in {"retries", "exhausted", "unparsable"}
    /\ batchFile # <<>>
    /\ processedFile # <<>>
    /\ catalogFile # <<>>

(* the names a run records: the lines its canonical names make in the files *)
RecordedNames(names) == Range(StrippedLines(NameLines(names)))

(* the statement of C8 for the products of the set om *)
OmittedRetried(om) ==
    /\ pc \in {"applied", "batch_written", "recorded", "done"} =>
          \A i \in om :
              /\ products[i].name = run0.catalog[i].name
              /\ products[i].description = run0.catalog[i].description
              /\ Strip(run0.catalog[i].name)
                     \notin RecordedNames(enhanced_names)
    /\ pc \in {"recorded", "done"} =>
          \A i \in om :
              Strip(run0.catalog[i].name)
                  \notin read_processed_names(processedFile)
    /\ pc = "selected" =>
          LET elig == Eligible(products,
                               read_processed_names(processedFile))
          IN  \A i \in om :
                  \/ i \in Range(batch)
                  \/ Cardinality({k \in 1..Len(elig) : elig[k] < i})
                         >= batch_size

(* C8, as stated: a product of the batch for which a successful response has
   no entry keeps its name and description, its name is added neither to the
   Processed Set nor to the Current Batch, and the next run selects it again
   if it still fits in the batch. *)
C8_OmittedIsRetried == OmittedRetried(omitted.all)

(* C8, amended: the same, for the omitted products whose trimmed name is none
   of the names the run records. *)
C8_OmittedClearIsRetried == OmittedRetried(omitted.clear)

C8_Witness ==
    /\ pc = "selected"
    /\ entries > 0
    /\ omitted.clear # {}
    /\ omitted.clear \subseteq Range(batch)
    /\ processedFile # <<>>

Perms(n) == {f \in [1..n -> 1..n] : \A i, j \in 1..n : f[i] = f[j] => i = j}

(* the entries of res whose originalName is a non-empty name of ps *)
Known(ps, res) ==
    {j \in 1..Len(res) :
        /\ res[j].originalName # <<>>
        /\ \E i \in 1..Len(ps) : ps[i].name = res[j].originalName}

(* C9: for results with pairwise distinct originalNames the catalog after
   apply-enhancements does not depend on the order of the entries; an entry
   whose originalName no product has changes nothing and is not counted. *)
C9_ApplyOrderAndStrangers ==
    pc = "apply_out" =>
        LET n == Len(results)
            known == Known(catalogFile, results)
            kept == SelectSeq(results,
                      LAMBDA it : /\ it.originalName # <<>>
                                  /\ \E i \in 1..Len(catalogFile) :
                                        catalogFile[i].name = it.originalName)
        IN  /\ (\A i, j \in 1..n :
                   results[i].originalName = results[j].originalName => i = j)
               => \A f \in Perms(n) :
                     apply_enhancements_to_products(
                         catalogFile, [k \in 1..n |-> results[f[k]]]).products
                     = products
            /\ updated = Cardinality(known)
            /\ Len(enhanced_names) = updated
            /\ known = {} => products = catalogFile
            /\ apply_enhancements_to_products(catalogFile, kept)
               = [products |-> products, updated |-> updated,
                  enhanced_names |-> enhanced_names]

C9_Witness ==
    /\ pc = "apply_out"
    /\ Len(results) = 2
    /\ results[1].originalName # results[2].originalName
    /\ Cardinality(Known(catalogFile, results)) = 1
    /\ products # catalogFile

(* C10: for a matched entry, the product's name is overwritten iff
   enhancedName is non-empty, its description iff enhancedDescription is
   non-empty, and the canonical name returned for the entry is enhancedName
   if non-empty, else originalName; one canonical name per matched entry, in
   the order of the results. *)
C10_ApplyOverwritesNonEmpty ==
    pc = "apply_out" =>
        LET known == Known(catalogFile, results)
            target(j) == Min({i \in 1..Len(catalogFile) :
                               catalogFile[i].name = results[j].originalName})
            renaming(i) == {j \in known : /\ target(j) = i
                                          /\ results[j].enhancedName # <<>>}
            describing(i) ==
                {j \in known : /\ target(j) = i
                               /\ results[j].enhancedDescription # <<>>}
            order == SelectSeq([j \in 1..Len(results) |-> j],
                               LAMBDA j : j \in known)
        IN  /\ Len(products) = Len(catalogFile)
            /\ \A i \in 1..Len(catalogFile) :
                  /\ products[i].name =
                        IF renaming(i) = {} THEN catalogFile[i].name
                        ELSE results[Max(renaming(i))].enhancedName
                  /\ products[i].description =
                        IF describing(i) = {} THEN catalogFile[i].description
                        ELSE results[Max(describing(i))].enhancedDescription
                  /\ products[i].image = catalogFile[i].image
                  /\ products[i].extra = catalogFile[i].extra
            /\ enhanced_names =
                  [k \in 1..Len(order) |->
                      IF results[order[k]].enhancedName # <<>>
                      THEN results[order[k]].enhancedName
                      ELSE results[order[k]].originalName]

C10_Witness ==
    /\ pc = "apply_out"
    /\ Len(enhanced_names) = 2
    /\ \E j \in Known(catalogFile, results) :
          /\ results[j].enhancedName = <<>>
          /\ results[j].enhancedDescription # <<>>
    /\ \E j \in Known(catalogFile, results) :
          /\ results[j].enhancedName # <<>>
          /\ results[j].enhancedDescription = <<>>

(* the URL the ledger holds for the key k: that of the last link whose
   lower-cased stem is k *)
LedgerKeys(links) == {LowerStr(links[i].stem) : i \in 1..Len(links)}
LedgerUrl(links, k) ==
    links[Max({i \in 1..Len(links) : LowerStr(links[i].stem) = k})].url
Suffixed(base, n) == base \o <<"_", <<"1", "2", "3">>[n]>>

(* C11: _match_url_for_name applies its rules in a fixed priority, the first
   hit wins: the exact sanitized base, then base_1, base_2, base_3 in that
   order, then a ledger key the base is a prefix of, then a ledger key that
   is a prefix of the base; an earlier rule's hit is returned even when later
   rules have hits too. *)
C11_MatchRulePriority ==
    pc = "match_out" =>
        LET base == sanitize_name_for_filename(match_name)
            keys == LedgerKeys(linksFile)
            sfx == {n \in 1..3 : Suffixed(base, n) \in keys}
            longer == {k \in keys : StartsWith(k, base)}
            shorter == {k \in keys : StartsWith(base, k)}
        IN  IF base \in keys THEN match_url = LedgerUrl(linksFile, base)
            ELSE IF sfx # {} THEN
                match_url = LedgerUrl(linksFile, Suffixed(base, Min(sfx)))
            ELSE IF longer # {} THEN
                match_url \in {LedgerUrl(linksFile, k) : k \in longer}
            ELSE IF shorter # {} THEN
                match_url \in {LedgerUrl(linksFile, k) : k \in shorter}
            ELSE match_url = NoUrl

(* an exact key with another URL under a key of a later rule: the exact
   key's URL is returned *)
C11_Witness ==
    /\ pc = "match_out"
    /\ match_name = <<"a">>
    /\ Len(linksFile) = 2
    /\ linksFile[1].stem = <<"a", "_", "b">>
    /\ linksFile[2].stem = <<"a">>
    /\ linksFile[1].url # linksFile[2].url
    /\ match_url = linksFile[2].url

(* the key k is the base, a suffixed base, or in a prefix relation with it *)
Related(k, base) ==
    \/ k = base
    \/ \E n \in 1..3 : k = Suffixed(base, n)
    \/ StartsWith(k, base)
    \/ StartsWith(base, k)

(* C12: _match_url_for_name resolves a name against a ledger key that is its
   sanitized base plus a collision suffix; it returns none when no ledger key
   is the base, a suffixed base or in a prefix relation with the base; and it
   never returns the URL of a key with no such relation. *)
C12_MatchOnlyRelatedKeys ==
    pc = "match_out" =>
        LET base == sanitize_name_for_filename(match_name)
            keys == LedgerKeys(linksFile)
            related == {k \in keys : Related(k, base)}
        IN  /\ (\E n \in 1..3 : Suffixed(base, n) \in keys)
                  => match_url # NoUrl
            /\ related = {} => match_url = NoUrl
            /\ match_url # NoUrl
                  => match_url \in {LedgerUrl(linksFile, k) : k \in related}

(* "A B" against the keys a_e (unrelated) and a_b_1 *)
C12_Witness ==
    /\ pc = "match_out"
    /\ match_name = <<"A", " ", "B">>
    /\ Len(linksFile) = 2
    /\ linksFile[1].stem = <<"a", "_", "e">>
    /\ linksFile[2].stem = <<"a", "_", "b", "_", "1">>
    /\ linksFile[1].url # linksFile[2].url
    /\ match_url = linksFile[2].url

(* the fields of a product other than image are those of the product q *)
SameButImage(p, q) ==
    /\ p.name = q.name
    /\ p.description = q.description
    /\ p.extra = q.extra

(* C13, as stated: the replacement pass changes a product's image only if
   that image was the sentinel and the product's name is in the name set (or
   the pass is the global one); no other field is modified. *)
C13_ReplaceOnlySentinelInSet ==
    pc = "replace_out" =>
        /\ Len(products) = Len(catalogFile)
        /\ \A i \in 1..Len(catalogFile) :
              /\ SameButImage(products[i], catalogFile[i])
              /\ products[i].image # catalogFile[i].image =>
                    /\ catalogFile[i].image = DUMMY_IMAGE_URL
                    /\ \/ replace_mode = "all"
                       \/ catalogFile[i].name \in Range(names_in)

(* C13, amended: the image was the sentinel once surrounding whitespace is
   removed, and the product's name equals a name of the set when case and
   surrounding whitespace are ignored. *)
C13_ReplaceOnlySentinelInSetLoosely ==
    pc = "replace_out" =>
        /\ Len(products) = Len(catalogFile)
        /\ \A i \in 1..Len(catalogFile) :
              /\ SameButImage(products[i], catalogFile[i])
              /\ products[i].image # catalogFile[i].image =>
                    /\ Strip(catalogFile[i].image) = DUMMY_IMAGE_URL
                    /\ \/ replace_mode = "all"
                       \/ \E k \in 1..Len(names_in) :
                             LowerStr(Strip(catalogFile[i].name))
                                 = LowerStr(Strip(names_in[k]))

(* a restricted pass in which one product got its URL, one kept its own image
   and one was outside the name set *)
C13_Witness ==
    /\ pc = "replace_out"
    /\ replace_mode = "batch"
    /\ Len(catalogFile) = 3
    /\ catalogFile[1].image = DUMMY_IMAGE_URL
    /\ products[1].image = <<"u">>
    /\ catalogFile[2].image = <<"x">>
    /\ catalogFile[2].name = <<"a">>
    /\ catalogFile[3].name = <<"b">>
    /\ catalogFile[3].image = DUMMY_IMAGE_URL
    /\ names_in = <<<<"a">>>>

(* C14: the replacement pass is idempotent: run a second time with the same
   name set and ledger it changes no product and reports zero updates. *)
C14_ReplaceIdempotent ==
    pc = "replace_out" =>
        LET again == ReplacePass(replace_mode, products, names_in, linksFile)
        IN  /\ again.products = products
            /\ again.report.updated = 0

C14_Witness ==
    /\ pc = "replace_out"
    /\ updated = 2
    /\ products # catalogFile
    /\ \E i \in 1..Len(products) : products[i].image = DUMMY_IMAGE_URL

(* the products of the catalog for whose name the ledger has a matching
   filename: a key that is the sanitized base, a suffixed base, or in a
   prefix relation with it *)
LedgerMatches(ps, links) ==
    {i \in 1..Len(ps) :
        \E k \in LedgerKeys(links) :
            Related(k, sanitize_name_for_filename(Strip(ps[i].name)))}

(* exactly the products of the set hit are updated, the others are left as
   they were and each is counted as "no link match" *)
ExactlyUpdated(hit) ==
    /\ \A i \in hit :
          /\ products[i].image # DUMMY_IMAGE_URL
          /\ products[i].image \in {linksFile[j].url : j \in 1..Len(linksFile)}
          /\ SameButImage(products[i], catalogFile[i])
    /\ \A i \in (1..Len(catalogFile)) \ hit : products[i] = catalogFile[i]
    /\ updated = Cardinality(hit)
    /\ replace_report.no_link = Len(catalogFile) - Cardinality(hit)

AllSentinel(ps) == \A i \in 1..Len(ps) : ps[i].image = DUMMY_IMAGE_URL

(* C15, as stated: on a catalog whose images are all the sentinel and a
   ledger with matching filenames for exactly k of the n names, the pass
   updates exactly those k images and leaves the other n-k untouched,
   counting each of them as "no link match". *)
C15_ReplaceExactlyMatched ==
    (pc = "replace_out" /\ AllSentinel(catalogFile))
    => ExactlyUpdated(LedgerMatches(catalogFile, linksFile))

(* C15, amended: the same when the ledger is not empty, every product has a
   name that is not blank and, in a pass for a name set, the name set holds
   every product's name (case and surrounding whitespace ignored). *)
C15_ReplaceExactlyMatchedInSet ==
    (/\ pc = "replace_out"
     /\ AllSentinel(catalogFile)
     /\ linksFile # <<>>
     /\ \A i \in 1..Len(catalogFile) :
           /\ Strip(catalogFile[i].name) # <<>>
           /\ \/ replace_mode = "all"
              \/ \E k \in 1..Len(names_in) :
                    LowerStr(Strip(catalogFile[i].name))
                        = LowerStr(Strip(names_in[k])))
    => ExactlyUpdated(LedgerMatches(catalogFile, linksFile))

(* the spec's case: three products, two of them with a file in the ledger *)
C15_Witness ==
    /\ pc = "replace_out"
    /\ replace_mode = "batch"
    /\ AllSentinel(catalogFile)
    /\ Len(catalogFile) = 3
    /\ names_in = <<<<"a">>, <<"b">>>>
    /\ linksFile # <<>>
    /\ Cardinality(LedgerMatches(catalogFile, linksFile)) = 2
    /\ updated = 2
    /\ replace_report.no_link = 1


----------------------------------------------------------------------------
(* The compressors. *)

Ended(st) == st.who # "none" /\ st.pc # "loop"
Iterated(st) == st.who # "none" /\ st.tested > 0
Oversized(st) == st.current_size > st.max_bytes

(* the test each compressor holds the dimensions to before it would
   downscale: min(width, height) < 300, width * 0.8 < 100 or
   height * 0.8 < 100 *)
BelowMinimum(who, width, height) ==
    IF who = "fetcher" THEN Min({width, height}) < 300
    ELSE width * 8 < 1000 \/ height * 8 < 1000

(* the quality the compressor does not step down from at the same
   dimensions: 25 in image_fetcher, below 25 in imageuploader *)
AtFloor(who, quality) ==
    IF who = "fetcher" THEN quality <= 25 ELSE quality - 15 < 10

SecondaryHigh(who) == IF who = "fetcher" THEN 80 ELSE 85

(* the last iteration began at the floor, with dimensions below the minimum
   or not, and its encoding was over the budget *)
FloorOversized(st, small) ==
    /\ Iterated(st)
    /\ AtFloor(st.who, st.before.quality)
    /\ Oversized(st)
    /\ BelowMinimum(st.who, st.before.width, st.before.height) = small

(* C16: an execution of either compressor ends without raising, and when it
   has ended the last encoded size is within the budget or the loop stopped
   because the image cannot shrink further, its dimensions below the
   minimum. *)
C16_EndsWithinBudgetOrAtMinimum ==
    Ended(comp) =>
        /\ comp.pc = "returned"
        /\ \/ ~Oversized(comp)
           \/ /\ comp.exit = "too_small"
              /\ BelowMinimum(comp.who, comp.width, comp.height)

(* C17: when an iteration began at the quality floor with the smaller
   dimension below the minimum and its encoding was over the budget, the
   compressor has stopped with the dimensions it had, not downscaled. *)
C17_StopsBelowMinimum ==
    (comp.who # "none" /\ FloorOversized(comp, TRUE)) =>
        /\ comp.pc = "returned"
        /\ comp.width = comp.before.width
        /\ comp.height = comp.before.height

(* C18: when an iteration began at the quality floor with dimensions not
   below the minimum and its encoding was over the budget, the compressor
   has downscaled both dimensions by 0.8, reset the quality to the secondary
   high value and goes on; and an execution returns an oversized result only
   with dimensions below the minimum. *)
C18_DownscalesUntilMinimum ==
    /\ (comp.who # "none" /\ FloorOversized(comp, FALSE)) =>
            /\ comp.pc = "loop"
            /\ comp.width = Scale08(comp.before.width)
            /\ comp.height = Scale08(comp.before.height)
            /\ comp.quality = SecondaryHigh(comp.who)
    /\ (Ended(comp) /\ comp.pc = "returned" /\ Oversized(comp)) =>
            BelowMinimum(comp.who, comp.width, comp.height)

(* C19: the second execution of a compressor on an image and budget goes
   through the steps of the first and ends as the first did, with the same
   final quality and dimensions. *)
C19_CompressionReproducible ==
    (Ended(comp) /\ comp.run = 2) => CompressOutcome(comp) = comp.first[1]

C19_Witness ==
    /\ Ended(comp)
    /\ comp.run = 2
    /\ comp.who = "fetcher"
    /\ comp.pc = "returned"
    /\ comp.width < comp.image.width
    /\ Len(comp.steps) > 14


----------------------------------------------------------------------------
(* The catalog file. *)

(* the values a parse of the file gives its keys other than the wrapper key,
   in the order of the file *)
Siblings(file, wrapper_key) ==
    SelectSeq(json_load(file).object, LAMBDA pair : pair.key # wrapper_key)

KeyOrder(file) ==
    [i \in 1..Len(file.object) |-> file.object[i].key]

(* C20: when a file that wraps its product list under menu, items or products
   has been loaded and saved, every other key of the wrapper object has the
   value it had, the keys are those of the original and in its order, and a
   save that succeeded put the saved products under the wrapper key. *)
C20_SaveKeepsSiblingKeys ==
    (document.pc = "saved" /\ document.wrapper_key # None) =>
        /\ IsObject(document.file)
        /\ KeyOrder(document.file) = KeyOrder(document.original)
        /\ Siblings(document.file, document.wrapper_key)
               = Siblings(document.original, document.wrapper_key)
        /\ document.saved =>
               DictGet(document.file.object, document.wrapper_key)
                   = JList(document.all_products)

C20_Witness ==
    /\ document.pc = "saved"
    /\ document.saved
    /\ document.changed
    /\ document.wrapper_key = "items"
    /\ Len(document.original.object) = 3
    /\ "menu" \in DictKeys(document.original.object)
    /\ \E i \in 1..3 : document.original.object[i].value
                            = JWritten("v", "escaped")
    /\ document.file # document.original

----------------------------------------------------------------------------
(* The image fetcher and the credential pools. *)

Fetching == fetch.pc \in {"start", "name", "save", "done", "crashed"}

(* the names main_cli has gone through, in the order of the log *)
LoggedNames == [k \in 1..Len(fetch.log) |-> fetch.log[k].name]

(* C21: a name gets at most 3 search attempts, a further attempt only after
   one that found no link or downloaded nothing; the acquisition never
   raises; the names of the batch are gone through once each, in order, and
   all of them by the end of the run. *)
C21_EveryNameAttemptedOnce ==
    (Fetching /\ fetch.folder) =>
        /\ fetch.pc # "crashed"
        /\ fetch.attempts <= 3
        /\ \A k \in 1..Len(fetch.log) : fetch.log[k].searches <= 3
        /\ (fetch.pc = "name" /\ fetch.attempts > 0) =>
               fetch.last \in {"no_urls", "no_download"}
        /\ Len(fetch.log) <= Len(fetch.names)
        /\ LoggedNames = SubSeq(fetch.names, 1, Len(fetch.log))
        /\ fetch.pc = "done" => Len(fetch.log) = Len(fetch.names)

(* C22: once a search has run out of credentials the process does not end
   in an unhandled error: the name fails, and by the end of the run every
   name of the batch has been gone through. *)
C22_ExhaustionFailsOneName ==
    (Fetching /\ fetch.folder /\ fetch.exhausted) =>
        /\ fetch.pc # "crashed"
        /\ fetch.pc = "done" => Len(fetch.log) = Len(fetch.names)

(* the service as the requests of a call see it when the first k - 1 of k
   keys are rate-limited and the last one answers: the request of attempt j
   goes out with key j *)
RateLimitedButLast(k) ==
    [j \in 1..MAX_RETRIES |-> IF j < k THEN "429" ELSE "ok"]

(* C23: with k keys of which the first k - 1 are rate-limited and the last
   answers, the text-generation call succeeds, whatever k is. *)
C23_RotationCostsNoRetry ==
    (call.pc \in {"returned", "raised"} /\ call.n >= 1
        /\ call.outcomes = RateLimitedButLast(call.n)) =>
        call.result.kind = "ok"

(* the names of the log entries whose image was saved, in order *)
SavedNames ==
    LET saved == SelectSeq(fetch.log, LAMBDA e : e.msg = "saved")
    IN  [k \in 1..Len(saved) |-> saved[k].name]

(* the folder as it was when the k-th file of the run was written *)
FolderBefore(k) ==
    fetch.before \cup {fetch.written[j] : j \in 1..(k - 1)}

(* base.jpg, base_1.jpg, base_2.jpg, ... *)
Candidate(base, counter) ==
    IF counter = 0 THEN base \o JPG
    ELSE base \o <<"_", Digit(counter)>> \o JPG

(* C24: a file the run writes is not one the folder held already: its name
   is the first free one of base.jpg, base_1.jpg, base_2.jpg, ... for the
   sanitized name; so the files written are distinct and the files the
   folder held are all still there. *)
C24_SaveNeverOverwrites ==
    Fetching =>
        /\ Len(SavedNames) = Len(fetch.written)
        /\ \A k \in 1..Len(fetch.written) :
              /\ fetch.written[k] \notin FolderBefore(k)
              /\ \E c \in 0..9 :
                    /\ fetch.written[k]
                          = Candidate(clean_name(SavedNames[k]), c)
                    /\ \A b \in 0..(c - 1) :
                          Candidate(clean_name(SavedNames[k]), b)
                              \in FolderBefore(k)
        /\ Cardinality(fetch.files)
              = Cardinality(fetch.before) + Len(fetch.written)

C24_Witness ==
    /\ Fetching
    /\ fetch.pc = "done"
    /\ fetch.before = {<<"a">> \o JPG}
    /\ fetch.names = <<(<<"a", " ", "1">>), (<<"a", " ">>)>>
    /\ fetch.written = <<(<<"a", "_", "1">> \o JPG), (<<"a", "_", "2">> \o JPG)>>

(* C25: with no credential configured the text-generation call returns
   normally, and so does every step of the image fetcher, which goes on with
   placeholder links. *)
C25_NoCredentialsDegrades ==
    /\ (call.pc \in {"returned", "raised"} /\ call.n = 0) =>
            call.pc = "returned"
    /\ (Fetching /\ (fetch.n = 0 \/ ~fetch.cse)) =>
            /\ fetch.pc # "crashed"
            /\ fetch.picks = {}

(* the values of CURRENT_KEY_INDEX get_api_url picks a key with during a
   text-generation call *)
RECURSIVE GeminiPicks(_, _, _, _)
GeminiPicks(outcomes, n, att, index) ==
    IF att >= MAX_RETRIES THEN {}
    ELSE IF ~(index < n) THEN {index}
    ELSE IF outcomes[att + 1] = "429" THEN
        IF CanSwitchKey(index, n)
        THEN {index} \cup GeminiPicks(outcomes, n, att + 1, index + 1)
        ELSE {index}
    ELSE IF outcomes[att + 1] = "err" THEN
        {index} \cup GeminiPicks(outcomes, n, att + 1, index)
    ELSE {index}

ValidIndex(index, n) == 0 <= index /\ index < n

(* C30: every value of the active index that either pool picks a credential
   with is a valid index of the configured credentials. *)
C30_PickedIndexIsValid ==
    /\ call.pc \in {"returned", "raised"} =>
            \A index \in GeminiPicks(call.outcomes, call.n, 0, 0) :
                ValidIndex(index, call.n)
    /\ Fetching => \A index \in fetch.picks : ValidIndex(index, fetch.n)

----------------------------------------------------------------------------
(* The order of the compressors' search. *)

InitialQuality(who) == IF who = "fetcher" THEN 90 ELSE 95
QualityStep(who) == IF who = "fetcher" THEN 5 ELSE 15
QualityFloor(who) == IF who = "fetcher" THEN 25 ELSE 10

(* start, start - step, ... as long as the floor is not passed *)
QualitySteps(who, start) ==
    [k \in 1..((start - QualityFloor(who)) \div QualityStep(who) + 1) |->
        start - (k - 1) * QualityStep(who)]

(* the qualities encoded at the given dimensions, in order *)
QualitiesAt(st, width, height) ==
    LET at == SelectSeq(st.steps,
                        LAMBDA s : s[2] = width /\ s[3] = height)
    IN  [k \in 1..Len(at) |-> at[k][1]]

(* the last iteration made the image smaller *)
Downscaled(st) ==
    Iterated(st) /\ (st.width # st.before.width
                        \/ st.height # st.before.height)

(* C26: when a compressor has made the image smaller, it had encoded it at
   the dimensions it then had at every quality from the starting quality of
   the round down to the floor, each encoding over the budget; and when the
   encoding at the initial quality fits the budget the result has the
   original dimensions and the initial quality. *)
C26_QualityFirst ==
    /\ (comp.who # "none" /\ Downscaled(comp)) =>
            LET first == comp.before.width = comp.image.width
                            /\ comp.before.height = comp.image.height
                start == IF first THEN InitialQuality(comp.who)
                         ELSE SecondaryHigh(comp.who)
            IN  /\ QualitiesAt(comp, comp.before.width, comp.before.height)
                      = QualitySteps(comp.who, start)
                /\ \A q \in Range(QualitySteps(comp.who, start)) :
                      EncodedSize(comp.before.width, comp.before.height,
                                  comp.image.detail, q) > comp.max_bytes
    /\ (Ended(comp)
          /\ EncodedSize(comp.image.width, comp.image.height,
                         comp.image.detail, InitialQuality(comp.who))
                <= comp.max_bytes) =>
            /\ comp.pc = "returned"
            /\ comp.width = comp.image.width
            /\ comp.height = comp.image.height
            /\ comp.quality = InitialQuality(comp.who)
            /\ Len(comp.steps) = 1

C26_Witness ==
    /\ comp.who = "fetcher"
    /\ Downscaled(comp)
    /\ comp.before.width < comp.image.width
    /\ comp.max_kb = 30
    /\ comp.pc = "loop"

----------------------------------------------------------------------------
(* The order of the run's durable writes. *)

(* C27: while a run is under way the Processed Set holds what it held when
   the run started, until the run has patched the image links of the batch
   and saved the catalog. *)
C27_RecordedAfterImagePatch ==
    (pc \in {"selected", "applied", "batch_written", "recorded"}) =>
        processedFile = run0.processed

----------------------------------------------------------------------------
(* The link file. *)

(* a dict as a set of (key, value) pairs *)
DictItems(d) == {<<d[i].key, d[i].value>> : i \in 1..Len(d)}

(* C28: parsing the file written for a mapping of filenames to URLs gives
   that mapping back. *)
C28_LedgerRoundTrip ==
    ledger.pc = "parsed" =>
        DictItems(ledger.links) = DictItems(ledger.uploaded_links)

----------------------------------------------------------------------------
(* What a save leaves of the catalog. *)

(* the fields of a product other than name, description and image *)
OtherFields(p) ==
    [f \in DOMAIN p \ {"name", "description", "image"} |-> p[f]]

(* C29: a step that changes the catalog file leaves the number of products,
   their order and every field of every product other than name, description
   and image as they were. *)
C29_SavePreservesOtherFields ==
    [][catalogFile' # catalogFile =>
          /\ Len(catalogFile') = Len(catalogFile)
          /\ \A i \in 1..Len(catalogFile) :
                OtherFields(catalogFile'[i]) = OtherFields(catalogFile[i])]_vars

C29_Witness ==
    /\ pc = "done"
    /\ Len(catalogFile) = 2
    /\ catalogFile # run0.catalog
    /\ catalogFile[1].name # run0.catalog[1].name
    /\ catalogFile[1].extra = "x1"
    /\ catalogFile[2].extra = "x2"

----------------------------------------------------------------------------
(* What the apply step touches. *)

(* the products selected into the batch of this run *)
Selected == {batch[k] : k \in 1..Len(batch)}

(* the apply step of an answered run *)
ApplyStep == pc = "selected" /\ pc' = "applied"

(* C31: the apply step changes name or description only of products of the
   selected batch; a product that was not selected keeps both, whatever
   originalName values the response holds. *)
C31_ApplyTouchesOnlyBatch ==
    [][ApplyStep =>
          \A i \in (1..Len(products)) \ Selected :
              /\ products'[i].name = products[i].name
              /\ products'[i].description = products[i].description]_vars

----------------------------------------------------------------------------
(* Repeated runs of main when every call of the service succeeds and the
   answer has an entry for each product of the batch.  Every write succeeds:
   the runs start with the failures of the model used up. *)

(* an answer with one entry per product of the batch, in the order of the
   batch, each naming its product by originalName *)
FullResponses(ps, b) ==
    {items \in [1..Len(b) -> UNION {ItemsFor(ps[b[k]].name) : k \in 1..Len(b)}] :
        \A k \in 1..Len(b) : items[k].originalName = ps[b[k]].name}

(* process_batch, the service answers with an entry for each input item *)
CallAnswersEach ==
    /\ pc = "selected"
    /\ \E items \in FullResponses(products, batch) :
        AfterCall([kind |-> "ok", items |-> items], "ok")
    /\ UNCHANGED <<durable, pureIO, everNames, run0, entries, faults>>

InitProgress ==
    /\ pc = "idle"
    /\ catalogFile \in InitCatalogs
    /\ processedFile = <<>>
    /\ batchFile = <<>>
    /\ linksFile \in InitLinks
    /\ products = <<>>
    /\ batch_size = 0
    /\ batch = <<>>
    /\ results = <<>>
    /\ enhanced_names = <<>>
    /\ updated = 0
    /\ apiResult = "none"
    /\ names_in = <<>>
    /\ names_out = <<>>
    /\ everNames = CatalogNameSet(catalogFile)
    /\ run0 = NoRun
    /\ omitted = NoneOmitted
    /\ entries = 0
    /\ faults = MaxFaults
    /\ PureQuiet

NextProgress ==
    \/ MainSelect
    \/ MainReplaceOnly
    \/ CallAnswersEach
    \/ WriteBatchNames
    \/ AppendProcessedNames
    \/ ReplaceAndSave
    \/ Exit

(* run_pipeline is run again as long as it is asked to: a run that can take a
   step takes it *)
SpecProgress == InitProgress /\ [][NextProgress]_vars /\ WF_vars(NextProgress)

(* nothing is left to select, whatever the batch size *)
NextBatchEmpty ==
    \A size \in 0..MaxBatchSize :
        select_next_batch(catalogFile, size, processedFile) = <<>>

(* the apply step of this run has written to product i, which is in the
   batch *)
Enriched(i) ==
    /\ pc = "applied"
    /\ i \in Selected
    /\ products[i] # run0.catalog[i]

(* C32: when every call succeeds with an entry for each input item, every
   product of the catalog with a non-empty name is, after finitely many runs,
   selected into a batch and enriched, and from some run on nothing is left
   to select. *)
C32_RunsReachCompletion ==
    /\ \A i \in 1..MaxProducts :
          (i \in DOMAIN catalogFile /\ Strip(catalogFile[i].name) # <<>>)
              => <>Enriched(i)
    /\ <>[](pc = "idle" /\ NextBatchEmpty)

----------------------------------------------------------------------------
(* The quality a compressor returns. *)

(* C33: in both compressors the quality returned is the quality of the last
   encoding the loop produced and tested against the budget, on every exit
   path. *)
C33_ReturnsLastTestedQuality ==
    (comp.who # "none" /\ comp.pc = "returned") => comp.quality = comp.tested

=============================================================================
